---- MODULE Spec2Model ----
(***************************************************************************)
(* A model of parts of the CRAS audio server:                              *)
(*   - the capture rclient message handling (CONNECT_STREAM,               *)
(*     DISCONNECT_STREAM, create/destroy),                                 *)
(*   - the USB output device blocklist,                                    *)
(*   - the Floss HFP manager,                                              *)
(*   - the loopback iodev (cras_loopback_iodev.c),                         *)
(*   - the ALSA helpers (available frames, channel maps, PCM calls),       *)
(*   - the BlueZ media transport and the Floss media callbacks.            *)
(* Each part has its own next-state relation and specification; the       *)
(* variables of the other parts stay at their initial values.              *)
(***************************************************************************)
EXTENDS Integers, Sequences, FiniteSets, TLC

VARIABLES
  \* ---- rclient ----
  rclient,          \* client id -> state of the struct cras_rclient
  pipe,             \* client id -> messages written to the client's fd
  stream_list,      \* the server's stream list (insertion order)
  nonblocking,      \* fds that cras_make_fd_nonblocking was called on
  observer_removed, \* client id -> number of cras_observer_remove calls
  last,             \* what the last handled call did (instrumentation)
  \* ---- device blocklist ----
  blocklist,        \* the struct cras_device_blocklist: its parsed ini
  bl_last,          \* the last cras_device_blocklist_check and its result
  \* ---- Floss HFP manager ----
  connected_hfp,    \* the one connected struct cras_hfp, or NULL (0)
  hfp_objs,         \* the struct cras_hfp objects allocated and not freed
  hfp_iodevs,       \* the PCM iodevs created and not destroyed
  hfp_pcm_iodev_create_called,
  hfp_pcm_iodev_destroy_called,
  hfp_last,         \* the last call of the manager and what it returned
  \* ---- loopback iodev ----
  loopdev,          \* struct loopback_iodev: loopback_type, read_frames,
                    \* started, dev_start_time, sender_idx, and the iodev's
                    \* open state and attached streams
  sbuf,             \* the sample buffer (struct byte_buffer)
  loopbacks,        \* output device idx -> hooks of the loopback dev on it
  enabled_outputs,  \* the enabled output devices, first one first
  enabled_cb,       \* the device enabled/disabled callbacks are installed
  now,              \* CLOCK_MONOTONIC_RAW, in ticks
  lb_last,          \* the last loopback call and what it returned
  \* ---- loopback iodev: the frames through the tap (instrumentation) ----
  delivered,        \* the frames the sender handed to sample_hook, in order
  consumed,         \* the frames the reader took with get/put, in order
  overrun,          \* some sample_hook call had more frames than room
  \* ---- ALSA helpers ----
  tstamp_last_underrun_log, \* the static of cras_alsa_get_avail_frames (s)
  alsa_clock,       \* CLOCK_MONOTONIC_RAW, in seconds
  warned,           \* device -> time of its last rate limited warning
  alsa_last,        \* the last cras_alsa_get_avail_frames call and its result
  \* ---- BlueZ media transport ----
  transport,        \* the struct cras_bt_transport: fd, read_mtu, write_mtu
  bt_last,          \* the last transport call and what it returned
  \* ---- Floss media ----
  active_fm,        \* the static active_fm: an index of fl_medias, or NULL
  fl_medias,        \* the struct fl_media objects made, in order: hci, a2dp
                    \* (an index of a2dp_objs or NULL) and whether freed
  a2dp_objs,        \* the struct cras_a2dp objects made, in order: the
                    \* fl_media given, the address, the times destroyed
  fl_last,          \* the last Floss media call and what it returned
  \* ---- ALSA channel maps ----
  chmaps,           \* the channel maps snd_pcm_query_chmaps reports, in order
  chmap_last,       \* the last call on the channel maps and what it returned
  \* ---- ALSA PCM calls ----
  pcm_env,          \* what the ALSA library answers to the next calls
  pcm_last,         \* the last cras_alsa_* PCM call: the library calls it
                    \* made, in order, and what it returned
  \* ---- BlueZ media transport list and volume ----
  transports,       \* the list of struct cras_bt_transport, in list order
  next_transport,   \* the identity of the next transport allocated
  bt_now,           \* CLOCK_MONOTONIC_RAW, in milliseconds
  bt_device,        \* the cras_bt_device: hardware volume use and value
  host_set_acked,   \* transport -> when a host volume set was last
                    \* acknowledged without error, -1 when never
  btl_last          \* the last call on the transport list

rclient_vars == <<rclient, pipe, stream_list, nonblocking, observer_removed, last>>

blocklist_vars == <<blocklist, bl_last>>

hfp_vars == <<connected_hfp, hfp_objs, hfp_iodevs, hfp_pcm_iodev_create_called,
              hfp_pcm_iodev_destroy_called, hfp_last>>

loop_vars == <<loopdev, sbuf, loopbacks, enabled_outputs, enabled_cb, now,
               lb_last>>

\* The log of the frames through the tap, written by the Fifo actions only.
fifo_vars == <<delivered, consumed, overrun>>

alsa_vars == <<tstamp_last_underrun_log, alsa_clock, warned, alsa_last>>

bt_vars == <<transport, bt_last>>

fl_vars == <<active_fm, fl_medias, a2dp_objs, fl_last>>

chmap_vars == <<chmaps, chmap_last>>

pcm_vars == <<pcm_env, pcm_last>>

btl_vars == <<transports, next_transport, bt_now, bt_device, host_set_acked, btl_last>>

vars == <<rclient_vars, blocklist_vars, hfp_vars, loop_vars, fifo_vars,
          alsa_vars, bt_vars, fl_vars, chmap_vars,
    pcm_vars,
    btl_vars>>

\* The variables each part leaves alone.
not_rclient_vars == <<blocklist_vars, hfp_vars, loop_vars, fifo_vars, alsa_vars, bt_vars,
    fl_vars, chmap_vars,
    pcm_vars,
    btl_vars>>
not_blocklist_vars == <<rclient_vars, hfp_vars, loop_vars, fifo_vars, alsa_vars, bt_vars,
    fl_vars, chmap_vars,
    pcm_vars,
    btl_vars>>
not_hfp_vars == <<rclient_vars, blocklist_vars, loop_vars, fifo_vars, alsa_vars, bt_vars,
    fl_vars, chmap_vars,
    pcm_vars,
    btl_vars>>
not_loop_vars == <<rclient_vars, blocklist_vars, hfp_vars, fifo_vars, alsa_vars, bt_vars,
    fl_vars, chmap_vars,
    pcm_vars,
    btl_vars>>
not_fifo_vars == <<rclient_vars, blocklist_vars, hfp_vars, alsa_vars, bt_vars,
    fl_vars, chmap_vars,
    pcm_vars,
    btl_vars>>
not_alsa_vars == <<rclient_vars, blocklist_vars, hfp_vars, loop_vars, fifo_vars,
                   bt_vars, fl_vars, chmap_vars,
    pcm_vars,
    btl_vars>>
not_bt_vars == <<rclient_vars, blocklist_vars, hfp_vars, loop_vars, fifo_vars,
                 alsa_vars, fl_vars, chmap_vars,
    pcm_vars,
    btl_vars>>
not_fl_vars == <<rclient_vars, blocklist_vars, hfp_vars, loop_vars, fifo_vars,
                 alsa_vars, bt_vars, chmap_vars,
    pcm_vars,
    btl_vars>>
not_chmap_vars == <<rclient_vars, blocklist_vars, hfp_vars, loop_vars, fifo_vars,
                    alsa_vars, bt_vars, fl_vars,
    pcm_vars,
    btl_vars>>
not_pcm_vars == <<rclient_vars, blocklist_vars, hfp_vars, loop_vars, fifo_vars,
    alsa_vars, bt_vars, fl_vars, chmap_vars,
    btl_vars>>
not_btl_vars == <<rclient_vars, blocklist_vars, hfp_vars, loop_vars, fifo_vars,
    alsa_vars, bt_vars, fl_vars, chmap_vars, pcm_vars>>

(***************************************************************************)
(* rclient: constants and helpers                                          *)
(***************************************************************************)

\* errno value used in the error replies.
EINVAL == 22

\* Client ids that can connect, and how many messages a client's pipe holds.
ClientIds == {1, 2}
MaxMsgs == 2
MaxStreams == 2

\* enum CRAS_STREAM_DIRECTION, CRAS_NUM_DIRECTIONS entries.
Directions == {"OUTPUT", "INPUT", "UNDEFINED", "POST_MIX_PRE_DSP"}

ConnTypes == {"CAPTURE", "CONTROL"}

\* The stream ids clients send: 0x10002, 0x20002.
StreamIds == {65538, 131074}

\* The audio fd passed along with CONNECT_STREAM.
AudFds == {100}

NoClient == [state |-> "none"]

NoCall == [op |-> "none"]

\* cras_stream_direction_mask: the bit of a direction, or none (-EINVAL).
cras_stream_direction_mask(dir) ==
  CASE dir = "OUTPUT" -> {"OUTPUT"}
    [] dir = "INPUT" -> {"INPUT"}
    [] dir = "POST_MIX_PRE_DSP" -> {"POST_MIX_PRE_DSP"}
    [] OTHER -> {}

\* supported_directions of each connection type.
supported_directions(conn_type) ==
  CASE conn_type = "CAPTURE" -> {"INPUT"}
    [] OTHER -> {"OUTPUT", "INPUT", "POST_MIX_PRE_DSP"}

\* The client part of a stream id: its high 16 bits.
stream_id_client(stream_id) == stream_id \div 65536

cras_valid_stream_id(stream_id, client_id) ==
  stream_id_client(stream_id) = client_id

client_connected_msg(client_id) ==
  [id |-> "CLIENT_CONNECTED", client_id |-> client_id]

stream_connected_msg(err, stream_id) ==
  [id |-> "STREAM_CONNECTED", err |-> err, stream_id |-> stream_id]

\* Streams of the list that belong to a client.
client_streams(list, client_id) ==
  SelectSeq(list, LAMBDA s : s.client = client_id)

\* The list without its first stream of the given id (DL_SEARCH + DL_DELETE).
RECURSIVE list_rm_first(_, _)
list_rm_first(list, stream_id) ==
  IF list = <<>> THEN <<>>
  ELSE IF Head(list).stream_id = stream_id THEN Tail(list)
  ELSE <<Head(list)>> \o list_rm_first(Tail(list), stream_id)

(***************************************************************************)
(* rclient: operations                                                     *)
(***************************************************************************)

\* Validation without the direction check.
validate_no_direction(c, stream_id, dir) ==
  IF ~cras_valid_stream_id(stream_id, rclient[c].id) THEN -EINVAL ELSE 0

\* Validation without the client id check.
validate_no_client_id(c, stream_id, dir) ==
  IF cras_stream_direction_mask(dir) \cap rclient[c].supported_directions = {}
  THEN -EINVAL ELSE 0

\* The checks made on a CONNECT_STREAM message before anything is done.
rclient_validate_stream_connect_message(c, stream_id, dir) ==
  IF ~cras_valid_stream_id(stream_id, rclient[c].id) THEN -EINVAL
  ELSE IF cras_stream_direction_mask(dir) \cap rclient[c].supported_directions = {}
  THEN -EINVAL
  ELSE 0

\* stream_list_add that keeps the stream although it reports an error.
stream_list_add_keeps_failed(list, stream, rc) == Append(list, stream)

\* stream_list_add: the list afterwards, given the result rc of the call.
stream_list_add(list, stream, rc) ==
  IF rc = 0 THEN Append(list, stream) ELSE list

\* A reply that does not echo the stream id of the message.
connect_reply_first_id(err, stream_id) ==
  stream_connected_msg(err, 65538)

\* The STREAM_CONNECTED reply to a CONNECT_STREAM message.
connect_reply(err, stream_id) == stream_connected_msg(err, stream_id)

\* CONNECT_STREAM from client c.  fmt_valid is cras_audio_format_valid of the
\* message's format, add_rc the result of stream_list_add when it is called.
HandleConnect(c, dir, stream_id, fmt_valid, fd, add_rc) ==
  /\ rclient[c].state = "live"
  /\ Len(pipe[c]) < MaxMsgs
  /\ add_rc = 0 => Len(stream_list) < MaxStreams
  /\ LET v == rclient_validate_stream_connect_message(c, stream_id, dir)
         rc == IF v = 0 /\ ~fmt_valid THEN -EINVAL ELSE v
         stream == [stream_id |-> stream_id, direction |-> dir, client |-> c]
         err == IF rc # 0 THEN rc ELSE add_rc
     IN /\ nonblocking' = IF rc = 0 THEN nonblocking \cup {fd} ELSE nonblocking
        /\ stream_list' = IF rc = 0 THEN stream_list_add(stream_list, stream, add_rc)
                          ELSE stream_list
        /\ pipe' = [pipe EXCEPT ![c] = Append(@, connect_reply(err, stream_id))]
        /\ last' = [op |-> "connect", client |-> c, dir |-> dir,
                    stream_id |-> stream_id, fmt_valid |-> fmt_valid, fd |-> fd,
                    ret |-> 0, err |-> err,
                    add_rc |-> IF rc = 0 THEN add_rc ELSE 0,
                    calls |-> IF rc = 0
                              THEN <<"cras_make_fd_nonblocking", "stream_list_add">>
                              ELSE <<>>,
                    streams_before |-> stream_list,
                    pipe_before |-> pipe[c],
                    nonblocking_before |-> nonblocking]
  /\ UNCHANGED <<rclient, observer_removed>>
  /\ UNCHANGED not_rclient_vars

\* Disconnect handling that does not look at the client part of the id.
disconnect_allowed_any(c, stream_id) == TRUE

\* Whether DISCONNECT_STREAM of stream_id is accepted from client c.
disconnect_allowed(c, stream_id) == cras_valid_stream_id(stream_id, rclient[c].id)

\* DISCONNECT_STREAM from client c.
HandleDisconnect(c, stream_id) ==
  /\ rclient[c].state = "live"
  /\ LET ok == disconnect_allowed(c, stream_id)
     IN /\ stream_list' = IF ok THEN list_rm_first(stream_list, stream_id)
                          ELSE stream_list
        /\ last' = [op |-> "disconnect", client |-> c, stream_id |-> stream_id,
                    ret |-> 0,
                    calls |-> IF ok THEN <<"stream_list_rm">> ELSE <<>>,
                    streams_before |-> stream_list,
                    pipe_before |-> pipe[c],
                    nonblocking_before |-> nonblocking]
  /\ UNCHANGED <<rclient, pipe, nonblocking, observer_removed>>
  /\ UNCHANGED not_rclient_vars

\* Creation that sends nothing to the client.
create_messages_none(id) == <<>>

\* What creating a client writes to its fd.
create_messages(id) == <<client_connected_msg(id)>>

\* cras_capture_rclient_create and its siblings: a client of id c on its fd.
RclientCreate(c, conn_type) ==
  /\ rclient[c].state = "none"
  /\ rclient' = [rclient EXCEPT ![c] =
                   [state |-> "live", id |-> c, conn_type |-> conn_type,
                    supported_directions |-> supported_directions(conn_type)]]
  /\ pipe' = [pipe EXCEPT ![c] = create_messages(c)]
  /\ last' = [op |-> "create", client |-> c]
  /\ UNCHANGED <<stream_list, nonblocking, observer_removed>>
  /\ UNCHANGED not_rclient_vars

\* Destruction that removes the observer twice.
observer_remove_twice(n) == n + 2

\* cras_observer_remove, counted.
cras_observer_remove(n) == n + 1

\* ops->destroy: removes the observer and the client's streams.
RclientDestroy(c) ==
  /\ rclient[c].state = "live"
  /\ rclient' = [rclient EXCEPT ![c].state = "destroyed"]
  /\ observer_removed' = [observer_removed EXCEPT ![c] = cras_observer_remove(@)]
  /\ stream_list' = SelectSeq(stream_list, LAMBDA s : s.client # c)
  /\ last' = [op |-> "destroy", client |-> c]
  /\ UNCHANGED <<pipe, nonblocking>>
  /\ UNCHANGED not_rclient_vars

RclientInit ==
  /\ rclient = [c \in ClientIds |-> NoClient]
  /\ pipe = [c \in ClientIds |-> <<>>]
  /\ stream_list = <<>>
  /\ nonblocking = {}
  /\ observer_removed = [c \in ClientIds |-> 0]
  /\ last = NoCall

RclientNext ==
  \/ \E c \in ClientIds, t \in ConnTypes : RclientCreate(c, t)
  \/ \E c \in ClientIds : RclientDestroy(c)
  \/ \E c \in ClientIds, dir \in Directions, s \in StreamIds,
        fv \in BOOLEAN, fd \in AudFds, arc \in {0, -EINVAL} :
       HandleConnect(c, dir, s, fv, fd, arc)
  \/ \E c \in ClientIds, s \in StreamIds : HandleDisconnect(c, s)

(***************************************************************************)
(* rclient: properties                                                     *)
(***************************************************************************)

\* The client the last call was made on.
LastClient == rclient[last.client]

\* The last call was a CONNECT_STREAM whose direction the client does not support.
LastConnectBadDirection ==
  /\ last.op = "connect"
  /\ \/ LastClient.conn_type = "CAPTURE" /\ last.dir # "INPUT"
     \/ last.dir \notin LastClient.supported_directions

\* The last call was a CONNECT_STREAM whose stream id names another client.
LastConnectBadClientId ==
  /\ last.op = "connect"
  /\ last.stream_id \div 65536 # LastClient.id

\* The last CONNECT_STREAM was answered by exactly one STREAM_CONNECTED with
\* the given error and the stream id of the message.
RepliedOnce(err) ==
  pipe[last.client] =
    Append(last.pipe_before,
           [id |-> "STREAM_CONNECTED", err |-> err, stream_id |-> last.stream_id])

\* C1: a CONNECT_STREAM naming a direction the client's connection type does
\* not support (for a capture client: every direction but input) returns 0, is
\* answered by one STREAM_CONNECTED with err = -EINVAL and the stream id sent,
\* and adds no stream: neither stream_list_add nor stream_list_rm is called
\* and the fd is not made non-blocking.
C1_InvalidDirectionRejected ==
  LastConnectBadDirection =>
    /\ last.ret = 0
    /\ RepliedOnce(-EINVAL)
    /\ last.calls = <<>>
    /\ stream_list = last.streams_before
    /\ nonblocking = last.nonblocking_before

C1_Witness ==
  /\ LastConnectBadDirection
  /\ LastClient.conn_type = "CAPTURE"
  /\ last.dir = "OUTPUT"
  /\ last.client = 1
  /\ last.stream_id = 65538
  /\ last.fmt_valid

\* C2: a CONNECT_STREAM whose stream id has high 16 bits different from the
\* id of the client it arrives on returns 0, is answered by STREAM_CONNECTED
\* with err = -EINVAL and the same stream id, and no stream is added or removed.
C2_InvalidClientIdRejected ==
  LastConnectBadClientId =>
    /\ last.ret = 0
    /\ RepliedOnce(-EINVAL)
    /\ last.calls = <<>>
    /\ stream_list = last.streams_before
    /\ nonblocking = last.nonblocking_before

C2_Witness ==
  /\ LastConnectBadClientId
  /\ last.client = 1
  /\ last.stream_id = 131074
  /\ last.dir = "INPUT"
  /\ last.fmt_valid
  /\ stream_list # <<>>

\* The last call was a CONNECT_STREAM that failed, for whatever reason.
LastConnectFailed ==
  /\ last.op = "connect"
  /\ \/ LastConnectBadDirection
     \/ LastConnectBadClientId
     \/ ~last.fmt_valid
     \/ last.add_rc # 0

\* C3: every CONNECT_STREAM that fails (invalid direction, mismatched client
\* id, invalid format, stream_list_add returning an error) is answered by
\* exactly one STREAM_CONNECTED with err < 0 and the stream id sent, and leaves
\* the server's streams as they were before the message.
C3_FailedConnectLeavesNoState ==
  LastConnectFailed =>
    /\ last.err < 0
    /\ RepliedOnce(last.err)
    /\ stream_list = last.streams_before

C3_Witness ==
  /\ LastConnectFailed
  /\ last.add_rc # 0
  /\ ~LastConnectBadDirection
  /\ ~LastConnectBadClientId
  /\ last.fmt_valid
  /\ stream_list # <<>>

\* The last call was a valid CONNECT_STREAM on a capture client.
LastConnectValidCapture ==
  /\ last.op = "connect"
  /\ LastClient.conn_type = "CAPTURE"
  /\ last.dir = "INPUT"
  /\ last.stream_id \div 65536 = LastClient.id
  /\ last.fmt_valid

\* C4: a valid CONNECT_STREAM on a capture client makes the passed fd
\* non-blocking once, calls stream_list_add once and stream_list_rm never,
\* and sends one STREAM_CONNECTED with the same stream id; when
\* stream_list_add succeeds the list has grown by exactly that stream.
C4_ValidConnectAddsOneStream ==
  LastConnectValidCapture =>
    /\ last.calls = <<"cras_make_fd_nonblocking", "stream_list_add">>
    /\ nonblocking = last.nonblocking_before \cup {last.fd}
    /\ RepliedOnce(last.add_rc)
    /\ last.add_rc = 0 =>
         /\ Len(stream_list) = Len(last.streams_before) + 1
         /\ SubSeq(stream_list, 1, Len(last.streams_before)) = last.streams_before
         /\ stream_list[Len(stream_list)].stream_id = last.stream_id
         /\ stream_list[Len(stream_list)].client = last.client

C4_Witness ==
  /\ LastConnectValidCapture
  /\ last.add_rc = 0
  /\ last.client = 2
  /\ Len(stream_list) = 2

\* How many streams of a list have the given id.
CountId(list, stream_id) ==
  Len(SelectSeq(list, LAMBDA s : s.stream_id = stream_id))

\* C5: a DISCONNECT_STREAM calls stream_list_rm (once, for that id) if and
\* only if the high 16 bits of the stream id equal the id of the client it
\* arrives on; with a foreign client id nothing is removed; no stream is ever
\* added; and when the client's only stream has that id, the client has no
\* stream left afterwards.
C5_DisconnectOnlyOwnStreams ==
  last.op = "disconnect" =>
    LET own == last.stream_id \div 65536 = LastClient.id
        had == CountId(last.streams_before, last.stream_id)
    IN /\ own <=> last.calls = <<"stream_list_rm">>
       /\ ~own => last.calls = <<>> /\ stream_list = last.streams_before
       /\ own /\ had > 0 =>
            /\ Len(stream_list) = Len(last.streams_before) - 1
            /\ CountId(stream_list, last.stream_id) = had - 1
       /\ own /\ had = 0 => stream_list = last.streams_before
       /\ Len(stream_list) <= Len(last.streams_before)
       /\ (/\ own
           /\ Len(client_streams(last.streams_before, last.client)) = 1
           /\ client_streams(last.streams_before, last.client)[1].stream_id
                = last.stream_id)
            => client_streams(stream_list, last.client) = <<>>

C5_Witness ==
  /\ last.op = "disconnect"
  /\ last.client = 1
  /\ last.stream_id = 65538
  /\ Len(client_streams(last.streams_before, 1)) = 1
  /\ Len(last.streams_before) = 2
  /\ client_streams(stream_list, 1) = <<>>
  /\ Len(stream_list) = 1

\* C6: a created client has the id it was created with, and the first message
\* written to its fd is the only CLIENT_CONNECTED message; nothing is written
\* before the client exists; destroying the client removes its observer
\* exactly once.
C6_ClientConnectedFirst ==
  \A c \in ClientIds :
    /\ rclient[c].state = "none" => pipe[c] = <<>> /\ observer_removed[c] = 0
    /\ rclient[c].state # "none" =>
         /\ rclient[c].id = c
         /\ Len(pipe[c]) >= 1
         /\ pipe[c][1] = [id |-> "CLIENT_CONNECTED", client_id |-> c]
         /\ \A i \in 2..Len(pipe[c]) : pipe[c][i].id # "CLIENT_CONNECTED"
    /\ rclient[c].state = "live" => observer_removed[c] = 0
    /\ rclient[c].state = "destroyed" => observer_removed[c] = 1

C6_Witness ==
  /\ rclient[1].state = "destroyed"
  /\ Len(pipe[1]) = 2
  /\ observer_removed[1] = 1
  /\ rclient[2].state = "live"

(***************************************************************************)
(* Device blocklist                                                        *)
(***************************************************************************)

\* A character string is a sequence of one-character strings.
HexDigits == <<"0", "1", "2", "3", "4", "5", "6", "7",
               "8", "9", "a", "b", "c", "d", "e", "f">>

\* printf("%0<width>x", n): lowercase hex, zero padded to at least width.
RECURSIVE fmt_hex(_, _)
fmt_hex(n, width) ==
  IF n < 16 /\ width <= 1 THEN <<HexDigits[n + 1]>>
  ELSE fmt_hex(n \div 16, width - 1) \o <<HexDigits[(n % 16) + 1]>>

\* printf("%u", n).
RECURSIVE fmt_dec(_)
fmt_dec(n) ==
  IF n < 10 THEN <<HexDigits[n + 1]>>
  ELSE fmt_dec(n \div 10) \o <<HexDigits[(n % 10) + 1]>>

\* A key that leaves the device index out.
ini_key_no_index(vendor_id, product_id, desc_checksum, device_index) ==
  fmt_hex(vendor_id, 4) \o <<"_">> \o fmt_hex(product_id, 4) \o <<"_">>
    \o fmt_hex(desc_checksum, 8) \o <<"_">> \o <<"0">>

\* The key looked up in [USB_Outputs]: "%04x_%04x_%08x_%u".
ini_key(vendor_id, product_id, desc_checksum, device_index) ==
  fmt_hex(vendor_id, 4) \o <<"_">> \o fmt_hex(product_id, 4) \o <<"_">>
    \o fmt_hex(desc_checksum, 8) \o <<"_">> \o fmt_dec(device_index)

\* The keys that config files hold, as written in the file:
\* 0d8c_0008_00000012_0, 0d8c_0008_00000000_0, 0d8c_0009_00000000_0.
FileKeys ==
  { <<"0","d","8","c","_","0","0","0","8","_","0","0","0","0","0","0","1","2","_","0">>,
    <<"0","d","8","c","_","0","0","0","8","_","0","0","0","0","0","0","0","0","_","0">>,
    <<"0","d","8","c","_","0","0","0","9","_","0","0","0","0","0","0","0","0","_","0">> }

FileSections == {"USB_Outputs", "USB_Inputs"}

\* The lines "key = value" a config file may hold, each in its section.
FileEntries ==
  [section : FileSections, key : FileKeys, value : {0, 1}]

\* A parsed file has at most one value per section and key.
WellFormed(ini) ==
  \A e1, e2 \in ini :
    e1.section = e2.section /\ e1.key = e2.key => e1.value = e2.value

\* The config files: no file at all (the ini is NULL), or some lines.
MaxEntries == 2

IniNull == [loaded |-> FALSE, entries |-> {}]

ConfigFiles ==
  {IniNull} \cup
  {[loaded |-> TRUE, entries |-> es] :
     es \in {x \in SUBSET FileEntries : Cardinality(x) <= MaxEntries /\ WellFormed(x)}}

\* The queries made: vendor 0x0d8c/0x0d8d, product 8/9, checksum 0/0x12/0x13,
\* device index 0/1.
Queries ==
  [vendor : {3468, 3469}, product : {8, 9}, checksum : {0, 18, 19},
   index : {0, 1}]

\* iniparser_getboolean(ini, "section:key", 0).
iniparser_getboolean(ini, section, key) ==
  IF ~ini.loaded THEN 0
  ELSE IF \E e \in ini.entries : e.section = section /\ e.key = key /\ e.value = 1
  THEN 1 ELSE 0

\* cras_device_blocklist_check.
cras_device_blocklist_check(bl, q) ==
  iniparser_getboolean(bl.ini, "USB_Outputs",
                       ini_key(q.vendor, q.product, q.checksum, q.index))

\* cras_device_blocklist_create: reads the config file, if there is one.
BlocklistCreate(file) ==
  /\ blocklist.state = "none"
  /\ blocklist' = [state |-> "created", ini |-> file]
  /\ bl_last' = [op |-> "create"]
  /\ UNCHANGED not_blocklist_vars

\* One call of cras_device_blocklist_check.
BlocklistCheck(q) ==
  /\ blocklist.state = "created"
  /\ bl_last' = [op |-> "check", query |-> q,
                 result |-> cras_device_blocklist_check(blocklist, q)]
  /\ UNCHANGED blocklist
  /\ UNCHANGED not_blocklist_vars

\* cras_device_blocklist_destroy.
BlocklistDestroy ==
  /\ blocklist.state = "created"
  /\ blocklist' = [state |-> "none"]
  /\ bl_last' = [op |-> "destroy"]
  /\ UNCHANGED not_blocklist_vars

BlocklistInit ==
  /\ blocklist = [state |-> "none"]
  /\ bl_last = [op |-> "none"]

BlocklistNext ==
  \/ \E file \in ConfigFiles : BlocklistCreate(file)
  \/ \E q \in Queries : BlocklistCheck(q)
  \/ BlocklistDestroy

(***************************************************************************)
(* Device blocklist: properties                                            *)
(***************************************************************************)

\* The query a file key stands for, read off the key as written.
KeyQuery(key) ==
  CASE key = <<"0","d","8","c","_","0","0","0","8","_","0","0","0","0","0","0","1","2","_","0">>
         -> [vendor |-> 3468, product |-> 8, checksum |-> 18, index |-> 0]
    [] key = <<"0","d","8","c","_","0","0","0","8","_","0","0","0","0","0","0","0","0","_","0">>
         -> [vendor |-> 3468, product |-> 8, checksum |-> 0, index |-> 0]
    [] key = <<"0","d","8","c","_","0","0","0","9","_","0","0","0","0","0","0","0","0","_","0">>
         -> [vendor |-> 3468, product |-> 9, checksum |-> 0, index |-> 0]

\* The queries a config lists: its [USB_Outputs] keys set to 1.
Listed(ini) ==
  {KeyQuery(e.key) :
     e \in {x \in ini.entries : x.section = "USB_Outputs" /\ x.value = 1}}

\* Two queries that differ in exactly one of their four values.
Neighbours(q1, q2) ==
  Cardinality({f \in {"vendor", "product", "checksum", "index"} : q1[f] # q2[f]}) = 1

\* C7: cras_device_blocklist_check returns 1 exactly when the parsed config
\* has, in [USB_Outputs], the key of the four values set to 1, and 0
\* otherwise: a neighbour of a listed entry that is not listed itself gives 0,
\* an empty or missing config gives 0, and the answer is the same whatever
\* was asked before.
C7_BlocklistCheck ==
  bl_last.op = "check" =>
    /\ bl_last.result \in {0, 1}
    /\ bl_last.result = 1 <=> bl_last.query \in Listed(blocklist.ini)
    /\ blocklist.ini.entries = {} => bl_last.result = 0
    /\ \A q \in Listed(blocklist.ini) :
         Neighbours(q, bl_last.query) /\ bl_last.query \notin Listed(blocklist.ini)
           => bl_last.result = 0

C7_Witness ==
  /\ bl_last.op = "check"
  /\ bl_last.result = 1
  /\ bl_last.query = [vendor |-> 3468, product |-> 8, checksum |-> 18, index |-> 0]
  /\ Cardinality(blocklist.ini.entries) = 2

(***************************************************************************)
(* Floss HFP manager                                                       *)
(***************************************************************************)

\* How many HFP objects are created in a run.
MaxHfpCreates == 5

HfpAddrs == {"addr", "addr2", "addr3"}

\* The fl_media the object is created for (the test passes NULL).
FlMedias == {"NULL", "fm"}

\* The NULL pointer; objects are numbered from 1.
NULL == 0

\* hfp_pcm_iodev_create: a PCM iodev of the given direction bound to hfp.
hfp_pcm_iodev_create(hfp, dir) == [hfp |-> hfp, dir |-> dir]

\* hfp_pcm_iodev_destroy: the iodevs left when those of hfp are destroyed.
hfp_pcm_iodev_destroy(iodevs, hfp) == {d \in iodevs : d.hfp # hfp}

\* A create that does not look whether an object is connected already.
hfp_create_allowed_always(connected) == TRUE

\* Whether cras_floss_hfp_create goes ahead: only with no object connected.
hfp_create_allowed(connected) == connected = NULL

\* cras_floss_hfp_create(fm, addr).
HfpCreate(fm, addr) ==
  /\ hfp_pcm_iodev_create_called < 2 * MaxHfpCreates
  /\ LET new == (hfp_pcm_iodev_create_called \div 2) + 1
         ok == hfp_create_allowed(connected_hfp)
     IN /\ connected_hfp' = IF ok THEN new ELSE connected_hfp
        /\ hfp_objs' = IF ok THEN hfp_objs \cup {[id |-> new, fm |-> fm, addr |-> addr]}
                       ELSE hfp_objs
        /\ hfp_iodevs' = IF ok
                         THEN hfp_iodevs \cup {hfp_pcm_iodev_create(new, "INPUT"),
                                               hfp_pcm_iodev_create(new, "OUTPUT")}
                         ELSE hfp_iodevs
        /\ hfp_pcm_iodev_create_called' =
             IF ok THEN hfp_pcm_iodev_create_called + 2
             ELSE hfp_pcm_iodev_create_called
        /\ hfp_last' = [op |-> "create", fm |-> fm, addr |-> addr,
                        ret |-> IF ok THEN new ELSE NULL,
                        connected_before |-> connected_hfp,
                        iodevs_before |-> hfp_iodevs,
                        create_called_before |-> hfp_pcm_iodev_create_called,
                        destroy_called_before |-> hfp_pcm_iodev_destroy_called]
  /\ UNCHANGED hfp_pcm_iodev_destroy_called
  /\ UNCHANGED not_hfp_vars

\* cras_floss_hfp_destroy(hfp), called on an object create returned.
HfpDestroy(hfp) ==
  /\ hfp \in {o.id : o \in hfp_objs}
  /\ hfp_iodevs' = hfp_pcm_iodev_destroy(hfp_iodevs, hfp)
  /\ hfp_pcm_iodev_destroy_called' =
       hfp_pcm_iodev_destroy_called + Cardinality({d \in hfp_iodevs : d.hfp = hfp})
  /\ hfp_objs' = {o \in hfp_objs : o.id # hfp}
  /\ connected_hfp' = NULL
  /\ hfp_last' = [op |-> "destroy", hfp |-> hfp,
                  connected_before |-> connected_hfp,
                  iodevs_before |-> hfp_iodevs,
                  create_called_before |-> hfp_pcm_iodev_create_called,
                  destroy_called_before |-> hfp_pcm_iodev_destroy_called]
  /\ UNCHANGED hfp_pcm_iodev_create_called
  /\ UNCHANGED not_hfp_vars

HfpInit ==
  /\ connected_hfp = NULL
  /\ hfp_objs = {}
  /\ hfp_iodevs = {}
  /\ hfp_pcm_iodev_create_called = 0
  /\ hfp_pcm_iodev_destroy_called = 0
  /\ hfp_last = [op |-> "none"]

HfpNext ==
  \/ \E fm \in FlMedias, addr \in HfpAddrs : HfpCreate(fm, addr)
  \/ \E hfp \in 1..MaxHfpCreates : HfpDestroy(hfp)

(***************************************************************************)
(* Floss HFP manager: properties                                           *)
(***************************************************************************)

\* The iodevs of a set that are bound to an object.
IodevsOf(iodevs, hfp) == {d \in iodevs : d.hfp = hfp}

\* C8: at most one Floss HFP object exists at a time.  A create with none
\* existing succeeds and creates exactly two PCM iodevs bound to the new
\* object; a create while one exists returns NULL and creates no iodev;
\* destroy destroys exactly the two iodevs that were created for the object.
C8_SingleHfpObject ==
  /\ Cardinality(hfp_objs) <= 1
  /\ \A d \in hfp_iodevs : d.hfp \in {o.id : o \in hfp_objs}
  /\ (hfp_last.op = "create" /\ hfp_last.connected_before = NULL) =>
       /\ hfp_last.ret # NULL
       /\ hfp_objs = {[id |-> hfp_last.ret, fm |-> hfp_last.fm,
                       addr |-> hfp_last.addr]}
       /\ Cardinality(IodevsOf(hfp_iodevs, hfp_last.ret)) = 2
       /\ Cardinality(hfp_iodevs) = Cardinality(hfp_last.iodevs_before) + 2
       /\ hfp_pcm_iodev_create_called = hfp_last.create_called_before + 2
       /\ hfp_pcm_iodev_destroy_called = hfp_last.destroy_called_before
  /\ (hfp_last.op = "create" /\ hfp_last.connected_before # NULL) =>
       /\ hfp_last.ret = NULL
       /\ hfp_iodevs = hfp_last.iodevs_before
       /\ connected_hfp = hfp_last.connected_before
       /\ hfp_pcm_iodev_create_called = hfp_last.create_called_before
       /\ hfp_pcm_iodev_destroy_called = hfp_last.destroy_called_before
  /\ hfp_last.op = "destroy" =>
       /\ hfp_pcm_iodev_destroy_called = hfp_last.destroy_called_before + 2
       /\ hfp_pcm_iodev_create_called = hfp_last.create_called_before
       /\ hfp_iodevs = hfp_last.iodevs_before
                         \ IodevsOf(hfp_last.iodevs_before, hfp_last.hfp)
       /\ Cardinality(IodevsOf(hfp_last.iodevs_before, hfp_last.hfp)) = 2
       /\ hfp_objs = {}

C8_Witness ==
  /\ hfp_last.op = "create"
  /\ hfp_last.connected_before # NULL
  /\ hfp_last.addr = "addr2"
  /\ hfp_last.ret = NULL
  /\ hfp_pcm_iodev_create_called = 4
  /\ hfp_pcm_iodev_destroy_called = 2

(***************************************************************************)
(* Loopback iodev: constants and the byte buffer                           *)
(***************************************************************************)

\* LOOPBACK_BUFFER_SIZE (8192 in the source), scaled down.
LOOPBACK_BUFFER_SIZE == 3

\* Bytes of one S16_LE sample, and the channel count of the loopback device.
SampleBytes == 2
NumChannels == 2

\* cras_get_format_bytes of the loopback format.  The sender is taken to
\* deliver frames of this format to the hook.
FrameBytes == SampleBytes * NumChannels

\* byte_buffer_create(LOOPBACK_BUFFER_SIZE * 4): max_size and used_size.
UsedSize == LOOPBACK_BUFFER_SIZE * 4

\* iodev->buffer_size, in frames.
buffer_size == LOOPBACK_BUFFER_SIZE

LoopbackTypes ==
  {"LOOPBACK_POST_MIX_PRE_DSP", "LOOPBACK_POST_DSP", "LOOPBACK_POST_DSP_DELAYED"}

\* Output device indices, and NO_DEVICE.
OutputDevs == {1, 2}
NO_DEVICE == 0

\* Input device indices.
InputDevs == {3}

\* Hooks of the loopback device that one output device holds at most.
MaxHooks == 3

\* Frames the sender delivers in one call, frames read in a run, clock range.
MaxHookFrames == 3
MaxReadFrames == 1
MaxTime == 1

\* The device rate, as FrameRate frames per TicksPerSec clock ticks.
FrameRate == 3
TicksPerSec == 2

Min(a, b) == IF a < b THEN a ELSE b

\* The bytes of n frames delivered by the sender: every byte of a call is
\* different from the others and from silence (0).
HookData(n) == [k \in 1..(n * FrameBytes) |-> k]

\* The buffer after byte_buffer_create / buf_reset (bytes as they are).
buf_reset(b) == [b EXCEPT !.write_idx = 0, !.read_idx = 0, !.level = 0]

buf_writable(b) ==
  IF b.level >= UsedSize THEN 0
  ELSE IF b.write_idx < b.read_idx THEN b.read_idx - b.write_idx
  ELSE UsedSize - b.write_idx

buf_readable(b) ==
  IF b.level = 0 THEN 0
  ELSE IF b.read_idx < b.write_idx THEN b.write_idx - b.read_idx
  ELSE UsedSize - b.read_idx

buf_queued(b) == b.level

buf_increment_write(b, inc) ==
  [b EXCEPT !.write_idx = (b.write_idx + inc) % UsedSize,
            !.level = IF b.level + inc < UsedSize THEN b.level + inc ELSE UsedSize]

buf_increment_read(b, inc) ==
  [b EXCEPT !.read_idx = (b.read_idx + inc) % UsedSize,
            !.level = IF inc < b.level THEN b.level - inc ELSE 0]

\* memcpy(buf_write_pointer(b), src, n): src is a sequence of bytes.  A copy
\* past the end of the array is clipped here; the callers never ask for one.
buf_memcpy(b, src, n) ==
  [b EXCEPT !.bytes =
     [i \in 0..(UsedSize - 1) |->
        IF i >= b.write_idx /\ i < b.write_idx + n
        THEN src[i - b.write_idx + 1] ELSE b.bytes[i]]]

\* memset(buf_write_pointer(b), 0, n).
buf_memset0(b, n) ==
  [b EXCEPT !.bytes =
     [i \in 0..(UsedSize - 1) |->
        IF i >= b.write_idx /\ i < b.write_idx + n THEN 0 ELSE b.bytes[i]]]

(***************************************************************************)
(* Loopback iodev: operations                                              *)
(***************************************************************************)

\* One pass of the loop of sample_hook.  st holds the buffer, the frames not
\* yet copied (as bytes), their number, and the frames copied so far.
hook_pass(st) ==
  LET frames_to_copy == Min(buf_writable(st.b) \div FrameBytes, st.nframes)
      bytes_to_copy == frames_to_copy * FrameBytes
  IN IF frames_to_copy = 0 THEN st
     ELSE [b |-> buf_increment_write(buf_memcpy(st.b, st.frames, bytes_to_copy),
                                     bytes_to_copy),
           frames |-> SubSeq(st.frames, bytes_to_copy + 1, Len(st.frames)),
           nframes |-> st.nframes - frames_to_copy,
           frames_copied |-> st.frames_copied + frames_to_copy]

\* sample_hook that copies once and does not go round the end of the ring.
sample_hook_one_pass(b, frames, nframes) ==
  hook_pass([b |-> b, frames |-> frames, nframes |-> nframes, frames_copied |-> 0])

\* sample_hook: two passes, the second one for the part after the wrap.
sample_hook(b, frames, nframes) ==
  hook_pass(hook_pass([b |-> b, frames |-> frames, nframes |-> nframes,
                       frames_copied |-> 0]))

\* The sender calls the hook from its put buffer with nframes frames.
SampleHook(nframes) ==
  /\ \E d \in OutputDevs : loopbacks[d] > 0
  /\ LET frames == HookData(nframes)
         r == sample_hook(sbuf, frames, nframes)
     IN /\ sbuf' = r.b
        /\ lb_last' = [op |-> "sample_hook",
                       nframes |-> nframes, frames |-> frames,
                       ret |-> r.frames_copied, before |-> sbuf]
  /\ UNCHANGED <<loopdev, loopbacks, enabled_outputs, enabled_cb, now>>
  /\ UNCHANGED not_loop_vars

\* sample_hook_start: the sender reports that it started or stopped.
SampleHookStart(start) ==
  /\ \E d \in OutputDevs : loopbacks[d] > 0
  /\ loopdev' = [loopdev EXCEPT !.started = start]
  /\ lb_last' = [op |-> "sample_hook_start", ret |-> 0]
  /\ UNCHANGED <<sbuf, loopbacks, enabled_outputs, enabled_cb, now>>
  /\ UNCHANGED not_loop_vars

\* cras_frames_since_time(&start, rate) at clock value t.
cras_frames_since_time(start, t) ==
  IF t <= start THEN 0 ELSE ((t - start) * FrameRate) \div TicksPerSec

\* The silence frames_queued writes while the sender has not started.
frames_queued_fill(dev, b, t) ==
  LET frames_since_start == cras_frames_since_time(dev.dev_start_time, t)
      want == IF frames_since_start > dev.read_frames
              THEN frames_since_start - dev.read_frames ELSE 0
      frames_to_fill == Min(buf_writable(b) \div FrameBytes, want)
  IN IF frames_to_fill > 0
     THEN buf_increment_write(buf_memset0(b, frames_to_fill * FrameBytes),
                              frames_to_fill * FrameBytes)
     ELSE b

\* frames_queued that writes silence whether the sender has started or not.
frames_queued_fills_when_started(dev, b, t) ==
  IF ~dev.streams THEN [b |-> b, ret |-> 0]
  ELSE LET nb == frames_queued_fill(dev, b, t)
       IN [b |-> nb, ret |-> buf_queued(nb) \div FrameBytes]

\* frames_queued without the check for attached streams.
frames_queued_any_streams(dev, b, t) ==
  LET nb == IF ~dev.started THEN frames_queued_fill(dev, b, t) ELSE b
  IN [b |-> nb, ret |-> buf_queued(nb) \div FrameBytes]

\* frames_queued: the buffer afterwards and the value returned.
frames_queued(dev, b, t) ==
  IF ~dev.streams THEN [b |-> b, ret |-> 0]
  ELSE LET nb == IF ~dev.started THEN frames_queued_fill(dev, b, t) ELSE b
       IN [b |-> nb, ret |-> buf_queued(nb) \div FrameBytes]

FramesQueued ==
  /\ loopdev.open
  /\ LET r == frames_queued(loopdev, sbuf, now)
     IN /\ sbuf' = r.b
        /\ lb_last' = [op |-> "frames_queued", ret |-> r.ret,
                       streams |-> loopdev.streams,
                       after_configure |-> lb_last.op = "configure"]
  /\ UNCHANGED <<loopdev, loopbacks, enabled_outputs, enabled_cb, now>>
  /\ UNCHANGED not_loop_vars

\* delay_frames: frames_queued with a timestamp of its own.
DelayFrames ==
  /\ loopdev.open
  /\ LET r == frames_queued(loopdev, sbuf, now)
     IN /\ sbuf' = r.b
        /\ lb_last' = [op |-> "delay_frames", ret |-> r.ret,
                       streams |-> loopdev.streams,
                       after_configure |-> lb_last.op = "configure"]
  /\ UNCHANGED <<loopdev, loopbacks, enabled_outputs, enabled_cb, now>>
  /\ UNCHANGED not_loop_vars

\* cras_iodev_list_get_first_enabled_iodev(CRAS_STREAM_OUTPUT), or NO_DEVICE.
first_enabled_output == 
  IF enabled_outputs = <<>> THEN NO_DEVICE ELSE Head(enabled_outputs)

\* The same for a list of enabled output devices outs.
first_enabled(outs) == IF outs = <<>> THEN NO_DEVICE ELSE Head(outs)

\* cras_iodev_list_register_loopback on output device d.
register_loopback(regs, d) == [regs EXCEPT ![d] = @ + 1]

\* cras_iodev_list_unregister_loopback: every hook of the loopback device on
\* output device d is deleted; an unknown device changes nothing.
unregister_loopback(regs, d) ==
  IF d \in OutputDevs THEN [regs EXCEPT ![d] = 0] ELSE regs

\* The list of enabled devices without device d.
RECURSIVE list_without(_, _)
list_without(outs, d) ==
  IF outs = <<>> THEN <<>>
  ELSE IF Head(outs) = d THEN list_without(Tail(outs), d)
  ELSE <<Head(outs)>> \o list_without(Tail(outs), d)

\* update_first_output_to_loopback that registers the hook and leaves
\* sender_idx as it is.
update_first_output_keeps_sender(dev, regs, outs) ==
  LET edev == first_enabled(outs)
  IN IF edev # NO_DEVICE
     THEN [dev |-> dev, regs |-> register_loopback(regs, edev)]
     ELSE [dev |-> dev, regs |-> regs]

\* update_first_output_to_loopback with outs the enabled output devices:
\* the device and the hooks afterwards.
update_first_output_to_loopback(dev, regs, outs) ==
  LET edev == first_enabled(outs)
  IN IF edev # NO_DEVICE
     THEN [dev |-> [dev EXCEPT !.sender_idx = edev],
           regs |-> register_loopback(regs, edev)]
     ELSE [dev |-> dev, regs |-> regs]

\* device_enabled_hook for device d.
device_enabled_hook(dev, regs, outs, d) ==
  IF d \notin OutputDevs THEN [dev |-> dev, regs |-> regs]
  ELSE update_first_output_to_loopback(dev, regs, outs)

\* device_disabled_hook that leaves the hook on the disabled device.
device_disabled_hook_keeps_hook(dev, regs, outs, d) ==
  IF dev.sender_idx # d THEN [dev |-> dev, regs |-> regs]
  ELSE update_first_output_to_loopback(dev, regs, outs)

\* device_disabled_hook for device d.
device_disabled_hook(dev, regs, outs, d) ==
  IF dev.sender_idx # d THEN [dev |-> dev, regs |-> regs]
  ELSE update_first_output_to_loopback(
         dev, unregister_loopback(regs, dev.sender_idx), outs)

\* The device list enables device d (an output device goes to the end of
\* the enabled list) and calls the enabled callback, if one is installed.
DeviceEnabled(d) ==
  /\ d \in OutputDevs => \A i \in 1..Len(enabled_outputs) : enabled_outputs[i] # d
  /\ LET outs == IF d \in OutputDevs THEN Append(enabled_outputs, d)
                 ELSE enabled_outputs
         r == IF enabled_cb THEN device_enabled_hook(loopdev, loopbacks, outs, d)
              ELSE [dev |-> loopdev, regs |-> loopbacks]
     IN /\ \A o \in OutputDevs : r.regs[o] <= MaxHooks
        /\ enabled_outputs' = outs
        /\ loopdev' = r.dev
        /\ loopbacks' = r.regs
        /\ lb_last' = [op |-> "device_enabled", dev |-> d, ret |-> 0,
                       cb |-> enabled_cb, sender_before |-> loopdev.sender_idx,
                       loopbacks_before |-> loopbacks]
  /\ UNCHANGED <<sbuf, enabled_cb, now>>
  /\ UNCHANGED not_loop_vars

\* The device list disables device d (an output device leaves the enabled
\* list) and calls the disabled callback, if one is installed.
DeviceDisabled(d) ==
  /\ d \in OutputDevs => \E i \in 1..Len(enabled_outputs) : enabled_outputs[i] = d
  /\ LET outs == list_without(enabled_outputs, d)
         r == IF enabled_cb THEN device_disabled_hook(loopdev, loopbacks, outs, d)
              ELSE [dev |-> loopdev, regs |-> loopbacks]
     IN /\ \A o \in OutputDevs : r.regs[o] <= MaxHooks
        /\ enabled_outputs' = outs
        /\ loopdev' = r.dev
        /\ loopbacks' = r.regs
        /\ lb_last' = [op |-> "device_disabled", dev |-> d, ret |-> 0,
                       cb |-> enabled_cb, sender_before |-> loopdev.sender_idx,
                       loopbacks_before |-> loopbacks]
  /\ UNCHANGED <<sbuf, enabled_cb, now>>
  /\ UNCHANGED not_loop_vars

\* configure_record_dev without the silence of the delayed variant.
configure_prefill_none(type, b) == b

\* The end of configure_record_dev: the delayed variant fills what is
\* writable with zeros.
configure_prefill(type, b) ==
  IF type = "LOOPBACK_POST_DSP_DELAYED"
  THEN LET filled == buf_memset0(b, buf_writable(b))
       IN buf_increment_write(filled, buf_writable(filled))
  ELSE b

\* The start of configure_record_dev without the reset of read_frames.
configure_reset_keeps_read_frames(dev, t) ==
  [dev EXCEPT !.dev_start_time = t, !.started = FALSE]

\* The start of configure_record_dev: the time stamp and the two resets.
configure_reset(dev, t) ==
  [dev EXCEPT !.dev_start_time = t, !.read_frames = 0, !.started = FALSE]

\* configure_record_dev, called when the closed device is opened.
Configure ==
  /\ loopdev.created /\ ~loopdev.open
  /\ LET edev == first_enabled_output
     IN /\ loopdev' = [configure_reset(loopdev, now) EXCEPT
                          !.open = TRUE,
                          !.sender_idx = IF edev # NO_DEVICE THEN edev ELSE @]
        /\ loopbacks' = IF edev # NO_DEVICE THEN register_loopback(loopbacks, edev)
                        ELSE loopbacks
        /\ edev # NO_DEVICE => loopbacks[edev] < MaxHooks
  /\ enabled_cb' = TRUE
  /\ sbuf' = configure_prefill(loopdev.loopback_type, sbuf)
  /\ lb_last' = [op |-> "configure", ret |-> 0, t |-> now,
                 before |-> loopdev, loopbacks_before |-> loopbacks,
                 cb_before |-> enabled_cb]
  /\ UNCHANGED <<enabled_outputs, now>>
  /\ UNCHANGED not_loop_vars

\* close_record_dev that forgets the sender before it unregisters.
close_unregister_after_reset(dev, regs) ==
  [dev |-> [dev EXCEPT !.sender_idx = NO_DEVICE],
   regs |-> unregister_loopback(regs, NO_DEVICE)]

\* close_record_dev: the hooks are taken off the sender, then sender_idx is
\* set to NO_DEVICE.
close_unregister(dev, regs) ==
  [dev |-> [dev EXCEPT !.sender_idx = NO_DEVICE],
   regs |-> unregister_loopback(regs, dev.sender_idx)]

\* close_record_dev, called when the open device is closed; its streams
\* have been removed by then.
Close ==
  /\ loopdev.open
  /\ sbuf' = buf_reset(sbuf)
  /\ LET r == close_unregister(loopdev, loopbacks)
     IN /\ loopbacks' = r.regs
        /\ loopdev' = [r.dev EXCEPT !.open = FALSE, !.streams = FALSE]
  /\ enabled_cb' = FALSE
  /\ lb_last' = [op |-> "close", ret |-> 0,
                 sender_before |-> loopdev.sender_idx,
                 loopbacks_before |-> loopbacks]
  /\ UNCHANGED <<enabled_outputs, now>>
  /\ UNCHANGED not_loop_vars

\* get_record_buffer that grants what is asked for.
get_record_buffer_all(b, frames) == frames

\* get_record_buffer asked for frames frames: what is granted.
get_record_buffer(b, frames) == Min(buf_readable(b) \div FrameBytes, frames)

GetBuffer(frames) ==
  /\ loopdev.open
  /\ lb_last' = [op |-> "get_buffer", frames |-> frames,
                 ret |-> 0, granted |-> get_record_buffer(sbuf, frames),
                 read_pointer |-> sbuf.read_idx]
  /\ UNCHANGED <<loopdev, sbuf, loopbacks, enabled_outputs, enabled_cb, now>>
  /\ UNCHANGED not_loop_vars

\* put_record_buffer that moves the read position by nframes bytes.
put_record_buffer_in_bytes(dev, b, nframes) ==
  [b |-> buf_increment_read(b, nframes),
   dev |-> [dev EXCEPT !.read_frames = @ + nframes]]

\* put_record_buffer: the buffer and the device afterwards.
put_record_buffer(dev, b, nframes) ==
  [b |-> buf_increment_read(b, nframes * FrameBytes),
   dev |-> [dev EXCEPT !.read_frames = @ + nframes]]

\* put_record_buffer(nframes) after a get_buffer that asked for frames
\* frames: nframes is at most what that call granted.
PutBuffer(frames, nframes) ==
  /\ loopdev.open
  /\ nframes <= get_record_buffer(sbuf, frames)
  /\ loopdev.read_frames + nframes <= MaxReadFrames
  /\ LET r == put_record_buffer(loopdev, sbuf, nframes)
     IN sbuf' = r.b /\ loopdev' = r.dev
  /\ lb_last' = [op |-> "put_buffer", nframes |-> nframes,
                 ret |-> 0, before |-> sbuf]
  /\ UNCHANGED <<loopbacks, enabled_outputs, enabled_cb, now>>
  /\ UNCHANGED not_loop_vars

\* flush_record_buffer that empties the sample buffer.
flush_record_buffer_resets(dev, b) ==
  [b |-> buf_reset(b), dev |-> [dev EXCEPT !.read_frames = 0], ret |-> 0]

\* flush_record_buffer: the buffer and the device afterwards, and the value
\* returned.
flush_record_buffer(dev, b) == [b |-> b, dev |-> dev, ret |-> 0]

FlushBuffer ==
  /\ loopdev.open
  /\ LET r == flush_record_buffer(loopdev, sbuf)
     IN /\ sbuf' = r.b
        /\ loopdev' = r.dev
        /\ lb_last' = [op |-> "flush_buffer", ret |-> r.ret,
                       before |-> sbuf]
  /\ UNCHANGED <<loopbacks, enabled_outputs, enabled_cb, now>>
  /\ UNCHANGED not_loop_vars

\* loopback_iodev_create(type): the device and its zeroed sample buffer.
LoopbackCreate(type) ==
  /\ ~loopdev.created
  /\ loopdev' = [loopdev EXCEPT !.created = TRUE, !.loopback_type = type]
  /\ lb_last' = [op |-> "create", ret |-> 0]
  /\ UNCHANGED <<sbuf, loopbacks, enabled_outputs, enabled_cb, now>>
  /\ UNCHANGED not_loop_vars

\* A stream is attached to the open device (iodev->streams becomes non-NULL).
AttachStream ==
  /\ loopdev.open /\ ~loopdev.streams
  /\ loopdev' = [loopdev EXCEPT !.streams = TRUE]
  /\ UNCHANGED <<sbuf, loopbacks, enabled_outputs, enabled_cb, now, lb_last>>
  /\ UNCHANGED not_loop_vars

\* The last stream is removed from the device.
DetachStream ==
  /\ loopdev.open /\ loopdev.streams
  /\ loopdev' = [loopdev EXCEPT !.streams = FALSE]
  /\ UNCHANGED <<sbuf, loopbacks, enabled_outputs, enabled_cb, now, lb_last>>
  /\ UNCHANGED not_loop_vars

\* Time passes.
Tick ==
  /\ now < MaxTime
  /\ now' = now + 1
  /\ UNCHANGED <<loopdev, sbuf, loopbacks, enabled_outputs, enabled_cb, lb_last>>
  /\ UNCHANGED not_loop_vars

LoopInit ==
  /\ loopdev = [created |-> FALSE, open |-> FALSE, streams |-> FALSE,
                loopback_type |-> "LOOPBACK_POST_MIX_PRE_DSP",
                read_frames |-> 0, started |-> FALSE, dev_start_time |-> 0,
                sender_idx |-> NO_DEVICE]
  /\ sbuf = [write_idx |-> 0, read_idx |-> 0, level |-> 0,
             bytes |-> [i \in 0..(UsedSize - 1) |-> 0]]
  /\ loopbacks = [d \in OutputDevs |-> 0]
  /\ enabled_outputs = <<1>>
  /\ enabled_cb = FALSE
  /\ now = 0
  /\ lb_last = [op |-> "none"]

LoopNext ==
  \/ \E type \in LoopbackTypes : LoopbackCreate(type)
  \/ Configure
  \/ Close
  \/ AttachStream
  \/ DetachStream
  \/ \E n \in 0..MaxHookFrames : SampleHook(n)
  \/ \E start \in BOOLEAN : SampleHookStart(start)
  \/ FramesQueued
  \/ DelayFrames
  \/ \E n \in 1..MaxHookFrames : GetBuffer(n)
  \/ \E frames \in 1..MaxHookFrames, n \in 0..MaxHookFrames : PutBuffer(frames, n)
  \/ FlushBuffer
  \/ Tick

\* The device while no stream reads from it.
LoopIdleNext ==
  \/ \E type \in LoopbackTypes : LoopbackCreate(type)
  \/ Configure
  \/ Close
  \/ AttachStream
  \/ DetachStream
  \/ \E n \in 0..MaxHookFrames : SampleHook(n)
  \/ \E start \in BOOLEAN : SampleHookStart(start)
  \/ FramesQueued
  \/ DelayFrames
  \/ FlushBuffer
  \/ Tick

\* The device with the output devices being enabled and disabled.
LoopTapNext ==
  \/ \E type \in LoopbackTypes : LoopbackCreate(type)
  \/ Configure
  \/ Close
  \/ \E d \in OutputDevs \cup InputDevs : DeviceEnabled(d)
  \/ \E d \in OutputDevs \cup InputDevs : DeviceDisabled(d)
  \/ AttachStream
  \/ \E start \in BOOLEAN : SampleHookStart(start)
  \/ FramesQueued
  \/ \E frames \in 1..MaxHookFrames, n \in 0..MaxHookFrames : PutBuffer(frames, n)
  \/ Tick

(***************************************************************************)
(* Loopback iodev: the frames through the tap                              *)
(***************************************************************************)

\* Frames the sender delivers in a run.
MaxFifoFrames == 4

\* The bytes of frames number first .. first + n - 1 of the sender's stream:
\* no two frames alike, none of them silence.
StreamData(first, n) ==
  [k \in 1..(n * FrameBytes) |-> ((first - 1) * FrameBytes) + k]

\* The bytes of a sequence cut into frames.
FramesOf(bytes) ==
  [i \in 1..(Len(bytes) \div FrameBytes) |->
     SubSeq(bytes, ((i - 1) * FrameBytes) + 1, i * FrameBytes)]

\* The n frames at the read pointer of buffer b (contiguous, as the audio
\* area of get_record_buffer shows them).
AreaFrames(b, n) ==
  [i \in 1..n |->
     [j \in 1..FrameBytes |-> b.bytes[b.read_idx + ((i - 1) * FrameBytes) + (j - 1)]]]

\* sample_hook called with the next nframes frames of the sender's stream.
FifoHook(nframes) ==
  /\ \E d \in OutputDevs : loopbacks[d] > 0
  /\ Len(delivered) + nframes <= MaxFifoFrames
  /\ LET frames == StreamData(Len(delivered) + 1, nframes)
         r == sample_hook(sbuf, frames, nframes)
     IN /\ sbuf' = r.b
        /\ delivered' = delivered \o FramesOf(frames)
        /\ overrun' = (overrun \/ nframes > (UsedSize - sbuf.level) \div FrameBytes)
        /\ lb_last' = [op |-> "sample_hook",
                       nframes |-> nframes, frames |-> frames,
                       ret |-> r.frames_copied, before |-> sbuf]
  /\ UNCHANGED <<loopdev, loopbacks, enabled_outputs, enabled_cb, now, consumed>>
  /\ UNCHANGED not_fifo_vars

\* get_record_buffer asking for frames frames, the reader taking nframes of
\* the frames granted, then put_record_buffer(nframes).
FifoRead(frames, nframes) ==
  /\ loopdev.open
  /\ nframes <= get_record_buffer(sbuf, frames)
  /\ Len(consumed) + nframes <= MaxFifoFrames + LOOPBACK_BUFFER_SIZE
  /\ LET r == put_record_buffer(loopdev, sbuf, nframes)
     IN sbuf' = r.b /\ loopdev' = r.dev
  /\ consumed' = consumed \o AreaFrames(sbuf, nframes)
  /\ lb_last' = [op |-> "put_buffer", nframes |-> nframes,
                 ret |-> 0, before |-> sbuf]
  /\ UNCHANGED <<loopbacks, enabled_outputs, enabled_cb, now, delivered, overrun>>
  /\ UNCHANGED not_fifo_vars

FifoInit ==
  /\ delivered = <<>>
  /\ consumed = <<>>
  /\ overrun = FALSE

\* One session of the device: it is created and configured, a stream is
\* attached, the sender starts, stops and delivers, the reader reads.
LoopFifoNext ==
  \/ \E type \in LoopbackTypes : LoopbackCreate(type)
  \/ Configure
  \/ AttachStream
  \/ \E start \in BOOLEAN : SampleHookStart(start)
  \/ FramesQueued
  \/ Tick
  \/ \E n \in 0..MaxHookFrames : FifoHook(n)
  \/ \E frames \in 1..MaxHookFrames, n \in 0..MaxHookFrames : FifoRead(frames, n)

(***************************************************************************)
(* Loopback iodev: properties                                              *)
(***************************************************************************)

\* The whole frames the buffer b has room for.
RoomFrames(b) == (UsedSize - b.level) \div FrameBytes

Delayed == loopdev.loopback_type = "LOOPBACK_POST_DSP_DELAYED"

ConfigureLeavesBuffer ==
  lb_last.op = "configure" =>
    IF Delayed
    THEN /\ buf_queued(sbuf) \div FrameBytes = buffer_size
         /\ \A i \in 0..(UsedSize - 1) : sbuf.bytes[i] = 0
    ELSE buf_queued(sbuf) = 0

FirstQueryAfterConfigure ==
  /\ lb_last.op \in {"frames_queued", "delay_frames"}
  /\ lb_last.after_configure

\* C10 as stated: right after configure of the delayed variant delay_frames
\* and frames_queued report at least buffer_size frames, and the buffer of
\* the other variants is empty after configure.
C10_Original ==
  /\ ConfigureLeavesBuffer
  /\ (FirstQueryAfterConfigure /\ Delayed) => lb_last.ret >= buffer_size

\* C10, amended: configure fills the whole sample buffer of the delayed
\* variant with silence (buffer_size frames) and leaves that of the other
\* variants empty; the first delay_frames or frames_queued after configure
\* of the delayed variant reports at least buffer_size frames when a stream
\* is attached to the device, and 0 while none is attached.
C10_DelayedPrefill ==
  /\ ConfigureLeavesBuffer
  /\ (FirstQueryAfterConfigure /\ Delayed) =>
       IF lb_last.streams THEN lb_last.ret >= buffer_size
       ELSE lb_last.ret = 0

\* delay_frames right after configure of the delayed variant, with a stream
\* attached, reports the whole buffer.
C10_Witness ==
  /\ Delayed
  /\ lb_last.op = "delay_frames"
  /\ lb_last.after_configure
  /\ lb_last.streams
  /\ lb_last.ret = buffer_size

\* The sender has never delivered a frame: every byte of the buffer is
\* silence, written at creation or by frames_queued.
OnlySilence == \A i \in 0..(UsedSize - 1) : sbuf.bytes[i] = 0

\* C11: on a non-delayed device with a stream attached whose sender has not
\* started and has delivered nothing, after a frames_queued or delay_frames
\* call read_frames plus the frames queued in the sample buffer is at most
\* the frames elapsed since dev_start_time at the device rate.
C11_SilenceBoundedByTime ==
  (/\ lb_last.op \in {"frames_queued", "delay_frames"}
   /\ lb_last.streams
   /\ loopdev.open /\ ~loopdev.started /\ ~Delayed
   /\ OnlySilence)
    => loopdev.read_frames + (buf_queued(sbuf) \div FrameBytes)
         <= cras_frames_since_time(loopdev.dev_start_time, now)

\* C12: when the output device named by sender_idx is disabled, the hook is
\* taken off that device; if an enabled output device is left, the hook is
\* registered on the first of them and sender_idx names it; the hooks on
\* every other device stay.  Disabling a device other than the sender
\* changes neither the device nor the hooks.
C12_TapMigratesOnDisable ==
  (lb_last.op = "device_disabled" /\ lb_last.cb) =>
    LET d == lb_last.dev
        e == first_enabled(enabled_outputs)
    IN IF lb_last.sender_before = d
       THEN /\ loopbacks[d] = 0
            /\ e # d
            /\ e # NO_DEVICE =>
                 /\ loopdev.sender_idx = e
                 /\ loopbacks[e] = lb_last.loopbacks_before[e] + 1
            /\ \A o \in OutputDevs \ {d, e} :
                 loopbacks[o] = lb_last.loopbacks_before[o]
       ELSE /\ loopdev.sender_idx = lb_last.sender_before
            /\ loopbacks = lb_last.loopbacks_before

\* The sender is disabled while another output is enabled: the tap moves.
C12_Witness ==
  /\ lb_last.op = "device_disabled" /\ lb_last.cb
  /\ lb_last.dev = 1 /\ lb_last.sender_before = 1
  /\ lb_last.loopbacks_before[1] > 0
  /\ loopdev.sender_idx = 2
  /\ loopbacks[2] = 1 /\ loopbacks[1] = 0

\* C13: configure registers the hooks on the first enabled output device,
\* when there is one, and makes sender_idx its index (with no enabled output
\* the hooks and sender_idx stay as they were); it sets read_frames to 0 and
\* started to false, sets dev_start_time to the time of the call and
\* installs the device enabled/disabled callbacks.
C13_ConfigureRegistersTap ==
  lb_last.op = "configure" =>
    LET e == first_enabled(enabled_outputs)
    IN /\ IF e # NO_DEVICE
          THEN /\ loopdev.sender_idx = e
               /\ loopbacks = [lb_last.loopbacks_before EXCEPT ![e] = @ + 1]
          ELSE /\ loopdev.sender_idx = lb_last.before.sender_idx
               /\ loopbacks = lb_last.loopbacks_before
       /\ loopdev.read_frames = 0
       /\ ~loopdev.started
       /\ loopdev.dev_start_time = lb_last.t
       /\ enabled_cb
       /\ loopdev.open
       /\ loopdev.loopback_type = lb_last.before.loopback_type

\* A second configure, later than the first, of a device that had been read
\* from and whose sender had started, with output device 2 the first enabled.
C13_Witness ==
  /\ lb_last.op = "configure"
  /\ lb_last.before.read_frames > 0
  /\ lb_last.before.started
  /\ lb_last.t > lb_last.before.dev_start_time
  /\ ~lb_last.cb_before
  /\ loopdev.sender_idx = 2
  /\ loopbacks[2] = 1

\* C14: after close no output device holds a hook of the loopback device,
\* the device enabled/disabled callbacks are removed, sender_idx is
\* NO_DEVICE, the device is closed and the sample buffer is empty.
C14_CloseRemovesTap ==
  lb_last.op = "close" =>
    /\ \A o \in OutputDevs : loopbacks[o] = 0
    /\ ~enabled_cb
    /\ loopdev.sender_idx = NO_DEVICE
    /\ ~loopdev.open
    /\ buf_queued(sbuf) = 0
    /\ sbuf.read_idx = 0 /\ sbuf.write_idx = 0

\* A close of a device whose tap had moved to output device 2 and was
\* registered there more than once.
C14_Witness ==
  /\ lb_last.op = "close"
  /\ lb_last.sender_before = 2
  /\ lb_last.loopbacks_before[2] >= 2
  /\ loopbacks[2] = 0

\* The frames of a sequence that are not silence.
RECURSIVE DataFrames(_)
DataFrames(fs) ==
  IF fs = <<>> THEN <<>>
  ELSE IF \A j \in 1..FrameBytes : Head(fs)[j] = 0 THEN DataFrames(Tail(fs))
  ELSE <<Head(fs)>> \o DataFrames(Tail(fs))

\* The frames queued in the sample buffer, the oldest first.
QueuedFrames ==
  [i \in 1..(buf_queued(sbuf) \div FrameBytes) |->
     [j \in 1..FrameBytes |->
        sbuf.bytes[(sbuf.read_idx + ((i - 1) * FrameBytes) + (j - 1)) % UsedSize]]]

UNDERRUN_LOG_TIME_SECS == 30

EPIPE == 32
ESTRPIPE == 86
EIO == 5

\* The devices (dev_name) the helper is called for.
AlsaDevs == {"hw:0", "hw:1"}

\* The buffer sizes and severe underrun thresholds of the calls.
AlsaBufSizes == {4}
AlsaSevereFrames == {0, 2}

\* The clock stops at MaxAlsaTime; it moves in steps of AlsaSteps seconds.
MaxAlsaTime == 64
AlsaSteps == {15, 16}

\* No rate limited warning yet.
NeverWarned == -1

\* What snd_pcm_avail returns: frames, or an error.
PcmAvail == (3..7) \cup {-EPIPE, -ESTRPIPE, -EIO}

\* What snd_pcm_htimestamp returns.
PcmHtimestampRc == {0, -EPIPE, -EIO}

\* The severe underrun test with >= in place of >.
severe_underrun_at_threshold(frames, buf_size, severe_underrun_frames) ==
  frames - buf_size >= severe_underrun_frames

\* (frames - buf_size) > severe_underrun_frames.
severe_underrun(frames, buf_size, severe_underrun_frames) ==
  frames - buf_size > severe_underrun_frames

\* cras_alsa_get_avail_frames.  frames is what snd_pcm_avail returns, hts_rc
\* and hw_tstamp what snd_pcm_htimestamp returns and stores, t the clock and
\* last_log the static tstamp_last_underrun_log.  The result holds rc,
\* *avail, *tstamp, the static afterwards and what was logged and resumed.
cras_alsa_get_avail_frames(frames, hts_rc, hw_tstamp, buf_size, severe_underrun_frames, t, last_log) ==
  LET rc == IF frames >= 0 THEN hts_rc ELSE frames
      error(r, log, lim, sev, res) ==
        [rc |-> r, avail |-> 0, tstamp |-> 0, last_log |-> log,
         logged_limited |-> lim, logged_severe |-> sev, resumed |-> res]
  IN IF rc = -EPIPE \/ rc = -ESTRPIPE
     THEN error(0, last_log, FALSE, FALSE, TRUE)
     ELSE IF rc < 0
     THEN error(rc, last_log, FALSE, FALSE, FALSE)
     ELSE IF frames > buf_size
     THEN LET lim == (t - last_log) > UNDERRUN_LOG_TIME_SECS
              log == IF lim THEN t ELSE last_log
          IN IF severe_underrun(frames, buf_size, severe_underrun_frames)
             THEN error(-EPIPE, log, lim, TRUE, FALSE)
             ELSE [rc |-> 0, avail |-> buf_size, tstamp |-> hw_tstamp,
                   last_log |-> log, logged_limited |-> lim,
                   logged_severe |-> FALSE, resumed |-> FALSE]
     ELSE [rc |-> 0, avail |-> frames, tstamp |-> hw_tstamp,
           last_log |-> last_log, logged_limited |-> FALSE,
           logged_severe |-> FALSE, resumed |-> FALSE]

\* One call of cras_alsa_get_avail_frames for device dev.
AlsaGetAvailFrames(dev, frames, hts_rc, buf_size, severe_underrun_frames) ==
  /\ LET r == cras_alsa_get_avail_frames(frames, hts_rc, alsa_clock + 1, buf_size,
                                         severe_underrun_frames, alsa_clock,
                                         tstamp_last_underrun_log)
     IN /\ tstamp_last_underrun_log' = r.last_log
        /\ warned' = IF r.logged_limited THEN [warned EXCEPT ![dev] = alsa_clock]
                     ELSE warned
        /\ alsa_last' = [op |-> "get_avail_frames", dev |-> dev,
                         frames |-> frames, hts_rc |-> hts_rc,
                         buf_size |-> buf_size,
                         severe_underrun_frames |-> severe_underrun_frames,
                         t |-> alsa_clock, rc |-> r.rc, avail |-> r.avail,
                         tstamp |-> r.tstamp,
                         logged_limited |-> r.logged_limited,
                         logged_severe |-> r.logged_severe,
                         resumed |-> r.resumed,
                         warned_before |-> warned]
  /\ UNCHANGED alsa_clock
  /\ UNCHANGED not_alsa_vars

\* Time passes.
AlsaTick(dt) ==
  /\ alsa_clock + dt <= MaxAlsaTime
  /\ alsa_clock' = alsa_clock + dt
  /\ UNCHANGED <<tstamp_last_underrun_log, warned, alsa_last>>
  /\ UNCHANGED not_alsa_vars

AlsaInit ==
  /\ tstamp_last_underrun_log = 0
  /\ alsa_clock = 0
  /\ warned = [d \in AlsaDevs |-> NeverWarned]
  /\ alsa_last = [op |-> "none"]

AlsaNext ==
  \/ \E dev \in AlsaDevs, frames \in PcmAvail, hts_rc \in PcmHtimestampRc,
        buf_size \in AlsaBufSizes, severe \in AlsaSevereFrames :
       AlsaGetAvailFrames(dev, frames, hts_rc, buf_size, severe)
  \/ \E dt \in AlsaSteps : AlsaTick(dt)

(***************************************************************************)
(* ALSA helpers: properties                                                *)
(***************************************************************************)

\* The last call had both PCM queries succeed.
AlsaPcmOk == alsa_last.op = "get_avail_frames" /\ alsa_last.frames >= 0
               /\ alsa_last.hts_rc = 0

\* C16: when the PCM reports exactly buf_size + severe_underrun_frames
\* frames the call returns 0 with *avail = buf_size; when it reports one
\* frame more the call returns -EPIPE with *avail = 0 and *tstamp zeroed.
C16_SevereUnderrunThreshold ==
  AlsaPcmOk =>
    LET B == alsa_last.buf_size
        T == alsa_last.severe_underrun_frames
    IN /\ alsa_last.frames = B + T =>
            /\ alsa_last.rc = 0
            /\ alsa_last.avail = B
            /\ alsa_last.tstamp # 0
            /\ ~alsa_last.logged_severe
       /\ alsa_last.frames = B + T + 1 =>
            /\ alsa_last.rc = -EPIPE
            /\ alsa_last.avail = 0
            /\ alsa_last.tstamp = 0
            /\ alsa_last.logged_severe

\* A call one frame over a threshold that is not zero: severe underrun.
C16_Witness ==
  /\ AlsaPcmOk
  /\ alsa_last.severe_underrun_frames = 2
  /\ alsa_last.frames = alsa_last.buf_size + 3
  /\ alsa_last.rc = -EPIPE

\* The device of the last call logged a rate limited warning less than
\* UNDERRUN_LOG_TIME_SECS + 1 seconds before the call.
WarnedLately(dev) ==
  /\ alsa_last.warned_before[dev] # NeverWarned
  /\ alsa_last.t - alsa_last.warned_before[dev] <= UNDERRUN_LOG_TIME_SECS

\* C17: underrun warnings are rate limited per device.  A device logs its
\* warning at most once in 30 seconds, and a device in underrun that has not
\* logged in the last 30 seconds logs its warning although another device
\* has logged in that time.
C17_UnderrunLogPerDevice ==
  (AlsaPcmOk /\ alsa_last.frames > alsa_last.buf_size) =>
    /\ alsa_last.logged_limited => ~WarnedLately(alsa_last.dev)
    /\ (/\ ~WarnedLately(alsa_last.dev)
        /\ \E other \in AlsaDevs \ {alsa_last.dev} : WarnedLately(other))
         => alsa_last.logged_limited

(***************************************************************************)
(* BlueZ media transport: acquire and release                              *)
(***************************************************************************)

\* cras_bt_constants.h.
A2DP_FIX_PACKET_SIZE == 672

MAX_WRITE_MTU == 4 * A2DP_FIX_PACKET_SIZE

ENOMEM == 12

\* The file descriptors and the MTUs (uint16_t) an Acquire reply carries.
BtFds == {7, 8}
BtReadMtus == {0, A2DP_FIX_PACKET_SIZE}
BtWriteMtus == {0, A2DP_FIX_PACKET_SIZE, A2DP_FIX_PACKET_SIZE + 1,
                MAX_WRITE_MTU, MAX_WRITE_MTU + 1, 65535}

\* How the Acquire method call ends: no message could be made, no reply, an
\* error reply, a reply with other arguments, a good reply.
BtReplies == {"no_message", "no_reply", "error", "bad_args", "ok"}

\* The write MTU with only the fix-packet-size rule applied.
clamp_write_mtu_fix_only(write_mtu, fix_enabled) ==
  IF fix_enabled /\ write_mtu > A2DP_FIX_PACKET_SIZE
  THEN A2DP_FIX_PACKET_SIZE ELSE write_mtu

\* The write MTU cras_bt_transport_acquire keeps for a reported write_mtu,
\* fix_enabled being cras_system_get_bt_fix_a2dp_packet_size_enabled().
clamp_write_mtu(write_mtu, fix_enabled) ==
  LET m == IF write_mtu > MAX_WRITE_MTU THEN A2DP_FIX_PACKET_SIZE ELSE write_mtu
  IN IF fix_enabled /\ m > A2DP_FIX_PACKET_SIZE THEN A2DP_FIX_PACKET_SIZE ELSE m

\* cras_bt_transport_acquire: the transport afterwards and the value returned.
cras_bt_transport_acquire(tr, reply, fd, read_mtu, write_mtu, fix_enabled) ==
  IF tr.fd >= 0 THEN [tr |-> tr, rc |-> 0]
  ELSE IF reply = "no_message" THEN [tr |-> tr, rc |-> -ENOMEM]
  ELSE IF reply \in {"no_reply", "error"} THEN [tr |-> tr, rc |-> -EIO]
  ELSE IF reply = "bad_args" THEN [tr |-> tr, rc |-> -EINVAL]
  ELSE [tr |-> [tr EXCEPT !.fd = fd, !.read_mtu = read_mtu,
                          !.write_mtu = clamp_write_mtu(write_mtu, fix_enabled)],
        rc |-> 0]

\* cras_bt_transport_create.
BtTransportCreate ==
  /\ transport.state = "none"
  /\ transport' = [state |-> "created", fd |-> -1, read_mtu |-> 0, write_mtu |-> 0]
  /\ bt_last' = [op |-> "create"]
  /\ UNCHANGED not_bt_vars

\* One call of cras_bt_transport_acquire.
BtTransportAcquire(reply, fd, read_mtu, write_mtu, fix_enabled) ==
  /\ transport.state = "created"
  /\ LET r == cras_bt_transport_acquire(transport, reply, fd, read_mtu,
                                        write_mtu, fix_enabled)
     IN /\ transport' = r.tr
        /\ bt_last' = [op |-> "acquire", rc |-> r.rc, reply |-> reply,
                       write_mtu |-> write_mtu, fix_enabled |-> fix_enabled,
                       before |-> transport]
  /\ UNCHANGED not_bt_vars

\* How the Release method call ends.  Blocking: no message could be made, no
\* reply, an error reply, a reply.  Not blocking: no message could be made,
\* dbus_connection_send_with_reply fails, it gives no pending call,
\* dbus_pending_call_set_notify fails, the call is pending.
ReleaseOutcomes(blocking) ==
  IF blocking THEN {"no_message", "no_reply", "error", "ok"}
  ELSE {"no_message", "send_failed", "no_pending", "notify_failed", "ok"}

\* The value cras_bt_transport_release returns once the fd is closed.
release_rc(blocking, outcome) ==
  IF outcome = "no_message" THEN -ENOMEM
  ELSE IF blocking
  THEN IF outcome \in {"no_reply", "error"} THEN -EIO ELSE 0
  ELSE IF outcome \in {"send_failed", "notify_failed"} THEN -ENOMEM
  ELSE IF outcome = "no_pending" THEN -EIO
  ELSE 0

\* The Release method calls handed to the D-Bus connection.
release_sent(blocking, outcome) ==
  IF outcome \in {"no_message", "send_failed"} THEN 0 ELSE 1

\* A release that gives up the fd only when the Release call went through.
release_keeps_fd_on_error(tr, blocking, outcome) ==
  IF tr.fd < 0 THEN [tr |-> tr, rc |-> 0, closed |-> {}, sent |-> 0]
  ELSE IF release_rc(blocking, outcome) # 0
  THEN [tr |-> tr, rc |-> release_rc(blocking, outcome), closed |-> {},
        sent |-> release_sent(blocking, outcome)]
  ELSE [tr |-> [tr EXCEPT !.fd = -1], rc |-> 0, closed |-> {tr.fd},
        sent |-> release_sent(blocking, outcome)]

\* cras_bt_transport_release: the transport afterwards, the value returned,
\* the descriptors closed and the number of messages sent.
cras_bt_transport_release(tr, blocking, outcome) ==
  IF tr.fd < 0 THEN [tr |-> tr, rc |-> 0, closed |-> {}, sent |-> 0]
  ELSE [tr |-> [tr EXCEPT !.fd = -1], rc |-> release_rc(blocking, outcome),
        closed |-> {tr.fd}, sent |-> release_sent(blocking, outcome)]

\* One call of cras_bt_transport_release.
BtTransportRelease(blocking, outcome) ==
  /\ transport.state = "created"
  /\ LET r == cras_bt_transport_release(transport, blocking, outcome)
     IN /\ transport' = r.tr
        /\ bt_last' = [op |-> "release", rc |-> r.rc, closed |-> r.closed,
                       sent |-> r.sent, blocking |-> blocking,
                       outcome |-> outcome, before |-> transport]
  /\ UNCHANGED not_bt_vars

BtInit ==
  /\ transport = [state |-> "none"]
  /\ bt_last = [op |-> "none"]

BtNext ==
  \/ BtTransportCreate
  \/ \E reply \in BtReplies, fd \in BtFds, read_mtu \in BtReadMtus,
        write_mtu \in BtWriteMtus, fix_enabled \in BOOLEAN :
       BtTransportAcquire(reply, fd, read_mtu, write_mtu, fix_enabled)
  \/ \E blocking \in BOOLEAN : \E outcome \in ReleaseOutcomes(blocking) :
       BtTransportRelease(blocking, outcome)

(***************************************************************************)
(* BlueZ media transport: properties                                       *)
(***************************************************************************)

\* C18: after a cras_bt_transport_acquire that returns 0 the write_mtu of
\* the transport is at most 4 * A2DP_FIX_PACKET_SIZE.  When the call got an
\* Acquire reply, a reported write MTU above 4 * A2DP_FIX_PACKET_SIZE, and
\* with the fix-packet-size option one above A2DP_FIX_PACKET_SIZE, is
\* replaced by A2DP_FIX_PACKET_SIZE, and any other is kept.
C18_WriteMtuClamped ==
  (bt_last.op = "acquire" /\ bt_last.rc = 0) =>
    /\ transport.write_mtu <= MAX_WRITE_MTU
    /\ bt_last.before.fd < 0 =>
         LET threshold == IF bt_last.fix_enabled THEN A2DP_FIX_PACKET_SIZE
                          ELSE MAX_WRITE_MTU
         IN transport.write_mtu =
              IF bt_last.write_mtu > threshold THEN A2DP_FIX_PACKET_SIZE
              ELSE bt_last.write_mtu
    /\ bt_last.before.fd >= 0 => transport = bt_last.before

\* An acquire without the option whose reply reports the MTU 65535.
C18_Witness ==
  /\ bt_last.op = "acquire" /\ bt_last.rc = 0
  /\ bt_last.before.fd < 0
  /\ ~bt_last.fix_enabled
  /\ bt_last.write_mtu = 65535
  /\ transport.write_mtu = A2DP_FIX_PACKET_SIZE
  /\ transport.fd >= 0

(***************************************************************************)
(* Floss media: start, stop and the BluetoothMediaCallback handler         *)
(***************************************************************************)

\* The fl_media and cras_a2dp objects made in a run.
MaxFlMedias == 2
MaxA2dps == 3

FlHcis == {0, 1}
FlAddrs == {"aa", "bb"}

\* cras_floss_a2dp_destroy(a2dp).
cras_floss_a2dp_destroy(objs, a2dp) == [objs EXCEPT ![a2dp].destroyed = @ + 1]

\* cras_floss_a2dp_create(fm, addr, ...): the objects afterwards and the
\* object returned, NULL when it fails.
cras_floss_a2dp_create(objs, fm, addr, ok) ==
  IF ok THEN [objs |-> Append(objs, [fm |-> fm, addr |-> addr, destroyed |-> 0]),
              ret |-> Len(objs) + 1]
  ELSE [objs |-> objs, ret |-> NULL]

\* The branch for OnBluetoothAudioDeviceAdded that does not destroy the
\* device it has.
device_added_keeps_older(fm, medias, objs, args_ok, addr, create_ok) ==
  IF ~args_ok
  THEN [medias |-> medias, objs |-> objs, calls |-> <<>>,
        ret |-> "DBUS_HANDLER_RESULT_NOT_YET_HANDLED"]
  ELSE IF fm = NULL
  THEN [medias |-> medias, objs |-> objs, calls |-> <<>>,
        ret |-> "DBUS_HANDLER_RESULT_HANDLED"]
  ELSE LET c == cras_floss_a2dp_create(objs, fm, addr, create_ok)
       IN [medias |-> [medias EXCEPT ![fm].a2dp = c.ret], objs |-> c.objs,
           calls |-> <<[f |-> "cras_floss_a2dp_create", a2dp |-> c.ret]>>,
           ret |-> "DBUS_HANDLER_RESULT_HANDLED"]

\* handle_bt_media_callback, the branch for OnBluetoothAudioDeviceAdded.
\* fm is active_fm; calls lists the a2dp manager calls made, in order.
device_added(fm, medias, objs, args_ok, addr, create_ok) ==
  IF ~args_ok
  THEN [medias |-> medias, objs |-> objs, calls |-> <<>>,
        ret |-> "DBUS_HANDLER_RESULT_NOT_YET_HANDLED"]
  ELSE IF fm = NULL
  THEN [medias |-> medias, objs |-> objs, calls |-> <<>>,
        ret |-> "DBUS_HANDLER_RESULT_HANDLED"]
  ELSE LET old == medias[fm].a2dp
           objs1 == IF old # NULL THEN cras_floss_a2dp_destroy(objs, old) ELSE objs
           calls1 == IF old # NULL
                     THEN <<[f |-> "cras_floss_a2dp_destroy", a2dp |-> old]>>
                     ELSE <<>>
           c == cras_floss_a2dp_create(objs1, fm, addr, create_ok)
       IN [medias |-> [medias EXCEPT ![fm].a2dp = c.ret], objs |-> c.objs,
           calls |-> Append(calls1, [f |-> "cras_floss_a2dp_create", a2dp |-> c.ret]),
           ret |-> "DBUS_HANDLER_RESULT_HANDLED"]

\* The branch for OnBluetoothAudioDeviceRemoved that only removes the
\* device added with the address of the message.
device_removed_same_addr(fm, medias, objs, args_ok, addr) ==
  IF ~args_ok
  THEN [medias |-> medias, objs |-> objs, calls |-> <<>>, ret |-> "rc"]
  ELSE IF fm # NULL /\ medias[fm].a2dp # NULL
          /\ objs[medias[fm].a2dp].addr = addr
  THEN [medias |-> [medias EXCEPT ![fm].a2dp = NULL],
        objs |-> cras_floss_a2dp_destroy(objs, medias[fm].a2dp),
        calls |-> <<[f |-> "cras_floss_a2dp_destroy", a2dp |-> medias[fm].a2dp]>>,
        ret |-> "DBUS_HANDLER_RESULT_HANDLED"]
  ELSE [medias |-> medias, objs |-> objs, calls |-> <<>>,
        ret |-> "DBUS_HANDLER_RESULT_HANDLED"]

\* handle_bt_media_callback, the branch for OnBluetoothAudioDeviceRemoved.
device_removed(fm, medias, objs, args_ok, addr) ==
  IF ~args_ok
  THEN [medias |-> medias, objs |-> objs, calls |-> <<>>, ret |-> "rc"]
  ELSE IF fm # NULL /\ medias[fm].a2dp # NULL
  THEN [medias |-> [medias EXCEPT ![fm].a2dp = NULL],
        objs |-> cras_floss_a2dp_destroy(objs, medias[fm].a2dp),
        calls |-> <<[f |-> "cras_floss_a2dp_destroy", a2dp |-> medias[fm].a2dp]>>,
        ret |-> "DBUS_HANDLER_RESULT_HANDLED"]
  ELSE [medias |-> medias, objs |-> objs, calls |-> <<>>,
        ret |-> "DBUS_HANDLER_RESULT_HANDLED"]

\* The record of a call: what was there before it.
FlBefore == [active_fm |-> active_fm, fl_medias |-> fl_medias, a2dp_objs |-> a2dp_objs]

\* An OnBluetoothAudioDeviceAdded method call arrives.
OnBluetoothAudioDeviceAdded(args_ok, addr, create_ok) ==
  /\ Len(a2dp_objs) < MaxA2dps
  /\ LET r == device_added(active_fm, fl_medias, a2dp_objs, args_ok, addr, create_ok)
     IN /\ fl_medias' = r.medias
        /\ a2dp_objs' = r.objs
        /\ fl_last' = [op |-> "added", args_ok |-> args_ok, addr |-> addr,
                       create_ok |-> create_ok, ret |-> r.ret,
                       calls |-> r.calls, before |-> FlBefore]
  /\ UNCHANGED active_fm
  /\ UNCHANGED not_fl_vars

\* An OnBluetoothAudioDeviceRemoved method call arrives.
OnBluetoothAudioDeviceRemoved(args_ok, addr) ==
  /\ LET r == device_removed(active_fm, fl_medias, a2dp_objs, args_ok, addr)
     IN /\ fl_medias' = r.medias
        /\ a2dp_objs' = r.objs
        /\ fl_last' = [op |-> "removed", args_ok |-> args_ok, addr |-> addr,
                       ret |-> r.ret, calls |-> r.calls, before |-> FlBefore]
  /\ UNCHANGED active_fm
  /\ UNCHANGED not_fl_vars

\* Another message arrives at the handler.
OtherMediaCallback ==
  /\ fl_last' = [op |-> "other", ret |-> "DBUS_HANDLER_RESULT_NOT_YET_HANDLED",
                 calls |-> <<>>, before |-> FlBefore]
  /\ UNCHANGED <<active_fm, fl_medias, a2dp_objs>>
  /\ UNCHANGED not_fl_vars

\* floss_media_start(conn, hci).  register_ok: the object path could be
\* registered; alloc_ok: fl_media_create got its memory.
FlossMediaStart(hci, register_ok, alloc_ok) ==
  /\ Len(fl_medias) < MaxFlMedias
  /\ IF ~register_ok
     THEN /\ UNCHANGED <<active_fm, fl_medias>>
          /\ fl_last' = [op |-> "start", ret |-> -1, calls |-> <<>>,
                         before |-> FlBefore]
     ELSE LET freed == IF active_fm # NULL
                       THEN [fl_medias EXCEPT ![active_fm].freed = TRUE]
                       ELSE fl_medias
          IN IF alloc_ok
             THEN /\ fl_medias' = Append(freed, [hci |-> hci, a2dp |-> NULL,
                                                 freed |-> FALSE])
                  /\ active_fm' = Len(fl_medias) + 1
                  /\ fl_last' = [op |-> "start", ret |-> 0, calls |-> <<>>,
                                 before |-> FlBefore]
             ELSE /\ fl_medias' = freed
                  /\ active_fm' = NULL
                  /\ fl_last' = [op |-> "start", ret |-> -ENOMEM, calls |-> <<>>,
                                 before |-> FlBefore]
  /\ UNCHANGED a2dp_objs
  /\ UNCHANGED not_fl_vars

\* floss_media_stop(conn).
FlossMediaStop ==
  /\ IF active_fm # NULL
     THEN /\ a2dp_objs' = IF fl_medias[active_fm].a2dp # NULL
                          THEN cras_floss_a2dp_destroy(a2dp_objs,
                                                       fl_medias[active_fm].a2dp)
                          ELSE a2dp_objs
          /\ fl_medias' = [fl_medias EXCEPT ![active_fm].freed = TRUE]
          /\ active_fm' = NULL
     ELSE UNCHANGED <<active_fm, fl_medias, a2dp_objs>>
  /\ fl_last' = [op |-> "stop", ret |-> 0, calls |-> <<>>, before |-> FlBefore]
  /\ UNCHANGED not_fl_vars

FlInit ==
  /\ active_fm = NULL
  /\ fl_medias = <<>>
  /\ a2dp_objs = <<>>
  /\ fl_last = [op |-> "none"]

FlNext ==
  \/ \E hci \in FlHcis, register_ok \in BOOLEAN, alloc_ok \in BOOLEAN :
       FlossMediaStart(hci, register_ok, alloc_ok)
  \/ FlossMediaStop
  \/ \E args_ok \in BOOLEAN, addr \in FlAddrs, create_ok \in BOOLEAN :
       OnBluetoothAudioDeviceAdded(args_ok, addr, create_ok)
  \/ \E args_ok \in BOOLEAN, addr \in FlAddrs :
       OnBluetoothAudioDeviceRemoved(args_ok, addr)
  \/ OtherMediaCallback

(***************************************************************************)
(* Floss media: properties                                                 *)
(***************************************************************************)

\* The A2DP devices made for fl_media fm and not destroyed.
AliveA2dps(fm) ==
  {a \in 1..Len(a2dp_objs) : a2dp_objs[a].fm = fm /\ a2dp_objs[a].destroyed = 0}

\* C19: the active Floss media object has at most one A2DP device that is
\* not destroyed, the one it holds.  An OnBluetoothAudioDeviceAdded received
\* while it holds one destroys that one first, then creates the new one and
\* stores it.  With no active Floss media object the callback is reported
\* as handled and creates and changes nothing.
C19_OneA2dpDevice ==
  /\ active_fm # NULL =>
       /\ Cardinality(AliveA2dps(active_fm)) <= 1
       /\ fl_medias[active_fm].a2dp # NULL =>
            AliveA2dps(active_fm) = {fl_medias[active_fm].a2dp}
       /\ fl_medias[active_fm].a2dp = NULL => AliveA2dps(active_fm) = {}
  /\ (fl_last.op = "added" /\ fl_last.args_ok) =>
       LET fm == fl_last.before.active_fm
       IN IF fm = NULL
          THEN /\ fl_last.ret = "DBUS_HANDLER_RESULT_HANDLED"
               /\ fl_last.calls = <<>>
               /\ a2dp_objs = fl_last.before.a2dp_objs
               /\ fl_medias = fl_last.before.fl_medias
          ELSE LET old == fl_last.before.fl_medias[fm].a2dp
                   new == fl_medias[fm].a2dp
               IN /\ fl_last.ret = "DBUS_HANDLER_RESULT_HANDLED"
                  /\ new = (IF fl_last.create_ok
                            THEN Len(fl_last.before.a2dp_objs) + 1 ELSE NULL)
                  /\ old # NULL =>
                       /\ fl_last.calls =
                            <<[f |-> "cras_floss_a2dp_destroy", a2dp |-> old],
                              [f |-> "cras_floss_a2dp_create", a2dp |-> new]>>
                       /\ a2dp_objs[old].destroyed = 1
                  /\ old = NULL =>
                       fl_last.calls =
                         <<[f |-> "cras_floss_a2dp_create", a2dp |-> new]>>

\* A second device is added while the first is held: the first is destroyed
\* and the second held.
C19_Witness ==
  /\ fl_last.op = "added" /\ fl_last.args_ok /\ fl_last.create_ok
  /\ active_fm # NULL
  /\ fl_last.before.fl_medias[active_fm].a2dp = 1
  /\ fl_medias[active_fm].a2dp = 2
  /\ a2dp_objs[1].destroyed = 1
  /\ a2dp_objs[2].destroyed = 0

(***************************************************************************)
(* ALSA channel maps: cras_chmap_caps_best                                 *)
(***************************************************************************)

\* The channel maps the PCM reports.
MaxChmaps == 2

CRAS_CH_MAX == 11
SND_CHMAP_FL == 3
SND_CHMAP_FRC == 13
CH_TO_ALSA(ch) == ch + 3
CH_TO_CRAS(ch) == ch - 3
ALSA_CH_VALID(ch) == ch >= SND_CHMAP_FL /\ ch <= SND_CHMAP_FRC

ChmapTypes == {"SND_CHMAP_TYPE_FIXED", "SND_CHMAP_TYPE_VAR", "SND_CHMAP_TYPE_PAIRED"}
PcmStreams == {"SND_PCM_STREAM_PLAYBACK", "SND_PCM_STREAM_CAPTURE"}

\* The positions of the maps tried: FL FR RL RR, its pairs swapped, its
\* front pair reversed, and a stereo map.
ChmapPos == {<<3, 4, 5, 6>>, <<5, 6, 3, 4>>, <<4, 3, 5, 6>>, <<3, 4>>}

\* snd_pcm_chmap_query_t: type and map (channels is the length of pos;
\* pos[i] of the code is pos[i + 1] here).  conv tells whether
\* cras_channel_conv_matrix_create returns a matrix for the layout derived
\* from the map.
Chmaps == [type : ChmapTypes, pos : ChmapPos, conv : BOOLEAN]

\* The channel_layout that puts the CRAS channels chs at 0, 1, ... and has
\* -1 for the others.
layout_of(chs) ==
  [ch \in 0..(CRAS_CH_MAX - 1) |->
     IF \E i \in 1..Len(chs) : chs[i] = ch
     THEN (CHOOSE i \in 1..Len(chs) : chs[i] = ch) - 1
     ELSE -1]

\* struct cras_audio_format: the formats tried, FL FR RL RR and RL RR FL FR.
ChmapFormats == {[num_channels |-> 4, channel_layout |-> layout_of(<<0, 1, 2, 3>>)],
                 [num_channels |-> 4, channel_layout |-> layout_of(<<2, 3, 0, 1>>)]}

\* The least member of a set of list indexes, 0 (NULL) for the empty set:
\* the map a loop over the list returns first.
first_chmap(S) == IF S = {} THEN 0 ELSE CHOOSE i \in S : \A j \in S : i <= j

\* First loop of cras_chmap_caps_match: the map already matches the order.
chmap_matches_order(m, fmt) ==
  /\ Len(m.pos) = fmt.num_channels
  /\ \A ch \in 0..(CRAS_CH_MAX - 1) :
       LET idx == fmt.channel_layout[ch]
       IN \/ idx = -1
          \/ idx >= Len(m.pos)
          \/ m.pos[idx + 1] = CH_TO_ALSA(ch)

\* Second loop: every channel of the layout is among the positions.
chmap_has_all_channels(m, fmt) ==
  \A ch \in 0..(CRAS_CH_MAX - 1) :
    \/ fmt.channel_layout[ch] = -1
    \/ \E i \in 0..(fmt.num_channels - 1) : m.pos[i + 1] = CH_TO_ALSA(ch)

\* Second loop: the map matches by swapping pairs.  (layout & 0x01 is 1 for
\* -1, as is -1 % 2 here.)
chmap_matches_pairs(m, fmt) ==
  \A i \in {k \in 0..(fmt.num_channels - 1) : k % 2 = 0} :
    LET ch == CH_TO_CRAS(m.pos[i + 1])
    IN /\ fmt.channel_layout[ch] % 2 = 0
       /\ fmt.channel_layout[ch] + 1 =
            fmt.channel_layout[CH_TO_CRAS(m.pos[i + 2])]

\* What one turn of the second loop returns the map for.
chmap_matches_swapped(m, fmt) ==
  /\ m.type # "SND_CHMAP_TYPE_FIXED"
  /\ Len(m.pos) = fmt.num_channels
  /\ \/ chmap_has_all_channels(m, fmt) /\ m.type = "SND_CHMAP_TYPE_VAR"
     \/ chmap_matches_pairs(m, fmt)

\* cras_chmap_caps_match(chmaps, fmt): the index of the map returned.
cras_chmap_caps_match(maps, fmt) ==
  LET exact == first_chmap({i \in 1..Len(maps) : chmap_matches_order(maps[i], fmt)})
  IN IF exact # 0 THEN exact
     ELSE first_chmap({i \in 1..Len(maps) : chmap_matches_swapped(maps[i], fmt)})

\* The channel_layout cras_chmap_caps_conv_matrix derives from a map.
conv_layout(m) ==
  [ch \in 0..(CRAS_CH_MAX - 1) |->
     LET at == {i \in 0..(Len(m.pos) - 1) :
                  ALSA_CH_VALID(m.pos[i + 1]) /\ CH_TO_CRAS(m.pos[i + 1]) = ch}
     IN IF at = {} THEN -1 ELSE CHOOSE i \in at : \A j \in at : j <= i]

\* cras_chmap_caps_conv_matrix(chmaps, fmt).
cras_chmap_caps_conv_matrix(maps, fmt) ==
  first_chmap({i \in 1..Len(maps) :
                 /\ Len(maps[i].pos) = fmt.num_channels
                 /\ maps[i].conv})

\* cras_chmap_caps_best(handle, chmaps, fmt); stream is snd_pcm_stream(handle).
cras_chmap_caps_best(stream, maps, fmt) ==
  LET match == cras_chmap_caps_match(maps, fmt)
      conv == cras_chmap_caps_conv_matrix(maps, fmt)
  IN IF match # 0 THEN match
     ELSE IF conv # 0 THEN conv
     ELSE IF stream = "SND_PCM_STREAM_CAPTURE"
     THEN first_chmap({i \in 1..Len(maps) : Len(maps[i].pos) = fmt.num_channels})
     ELSE 0

\* snd_pcm_query_chmaps reports one more map.  Maps that give the same
\* layout agree on whether the matrix can be built.
QueryChmap(m) ==
  /\ Len(chmaps) < MaxChmaps
  /\ \A i \in 1..Len(chmaps) :
       conv_layout(chmaps[i]) = conv_layout(m) => chmaps[i].conv = m.conv
  /\ chmaps' = Append(chmaps, m)
  /\ chmap_last' = [op |-> "query"]
  /\ UNCHANGED not_chmap_vars

\* snd_pcm_free_chmaps(chmaps).
FreeChmaps ==
  /\ chmaps' = <<>>
  /\ chmap_last' = [op |-> "free"]
  /\ UNCHANGED not_chmap_vars

\* cras_chmap_caps_best is called on the maps reported.
ChmapCapsBest(stream, fmt) ==
  /\ chmap_last' = [op |-> "best", stream |-> stream, fmt |-> fmt,
                    ret |-> cras_chmap_caps_best(stream, chmaps, fmt)]
  /\ UNCHANGED chmaps
  /\ UNCHANGED not_chmap_vars

ChmapInit ==
  /\ chmaps = <<>>
  /\ chmap_last = [op |-> "none"]

ChmapNext ==
  \/ \E m \in Chmaps : QueryChmap(m)
  \/ FreeChmaps
  \/ \E stream \in PcmStreams, fmt \in ChmapFormats : ChmapCapsBest(stream, fmt)

(***************************************************************************)
(* ALSA channel maps: properties                                           *)
(***************************************************************************)

\* The class of a map of the last call, 1 the best; 6 is a map that is no
\* candidate.
ChmapClass(m) ==
  LET fmt == chmap_last.fmt
  IN IF Len(m.pos) # fmt.num_channels THEN 6
     ELSE IF chmap_matches_order(m, fmt) THEN 1
     ELSE IF m.type = "SND_CHMAP_TYPE_VAR" /\ chmap_has_all_channels(m, fmt) THEN 2
     ELSE IF m.type # "SND_CHMAP_TYPE_FIXED" /\ chmap_matches_pairs(m, fmt) THEN 3
     ELSE IF m.conv THEN 4
     ELSE IF chmap_last.stream = "SND_PCM_STREAM_CAPTURE" THEN 5
     ELSE 6

\* C20: cras_chmap_caps_best returns the first map of the best class there
\* is in the list (exact match, variable map with every channel, pair-swap
\* match, conversion matrix, capture with the channel count), wherever maps
\* of lower classes sit, and no map when there is no candidate.
C20_StrictPriority ==
  chmap_last.op = "best" =>
    LET maps == chmaps
        cands == {i \in 1..Len(maps) : ChmapClass(maps[i]) < 6}
    IN IF cands = {} THEN chmap_last.ret = 0
       ELSE /\ chmap_last.ret \in cands
            /\ \A j \in cands :
                 \/ ChmapClass(maps[chmap_last.ret]) < ChmapClass(maps[j])
                 \/ /\ ChmapClass(maps[chmap_last.ret]) = ChmapClass(maps[j])
                    /\ chmap_last.ret <= j

(***************************************************************************)
(* ALSA PCM: resume, mmap begin and commit, open, hwparams                 *)
(***************************************************************************)

EAGAIN == 11
EBUSY == 16

\* The times snd_pcm_resume answers -EAGAIN before its final answer.
MaxEagain == 1

\* One library call: its name and the error code passed to it, if any.
LibCall(f) == [f |-> f, err |-> 0]
LibCallErr(f, err) == [f |-> f, err |-> err]

\* The answers of the library to the resume and recover calls.
PcmResumeEnvs ==
  [eagain : 0..MaxEagain, resume_rc : {0, -EINVAL}, prepare_rc : {0, -EBUSY},
   start_rc : {0, -EIO}, recover_rc : {0, -ENOMEM}]

\* n times the call c.
repeat_call(c, n) == [i \in 1..n |-> c]

\* cras_alsa_attempt_resume that skips snd_pcm_prepare and snd_pcm_start.
attempt_resume_no_fallback(env) ==
  [rc |-> env.resume_rc,
   calls |-> repeat_call(LibCall("snd_pcm_resume"), env.eagain + 1)]

\* cras_alsa_attempt_resume(handle): the value returned and the library
\* calls made.
cras_alsa_attempt_resume(env) ==
  LET resumes == repeat_call(LibCall("snd_pcm_resume"), env.eagain + 1)
  IN IF env.resume_rc < 0
     THEN [rc |-> env.start_rc,
           calls |-> resumes \o <<LibCall("snd_pcm_prepare"), LibCall("snd_pcm_start")>>]
     ELSE [rc |-> env.resume_rc, calls |-> resumes]

\* cras_alsa_mmap_commit that does not take a short count for an error.
mmap_commit_short_ok(env, frames, res) ==
  LET commit == <<LibCall("snd_pcm_mmap_commit")>>
  IN IF res >= 0 THEN [rc |-> 0, calls |-> commit]
     ELSE IF res = -ESTRPIPE
     THEN LET r == cras_alsa_attempt_resume(env)
          IN [rc |-> IF r.rc < 0 THEN r.rc ELSE 0, calls |-> commit \o r.calls]
     ELSE [rc |-> IF env.recover_rc < 0 THEN env.recover_rc ELSE 0,
           calls |-> Append(commit, LibCallErr("snd_pcm_recover", res))]

\* cras_alsa_mmap_commit(handle, offset, frames); res is what
\* snd_pcm_mmap_commit returns.
cras_alsa_mmap_commit(env, frames, res) ==
  LET commit == <<LibCall("snd_pcm_mmap_commit")>>
  IN IF res = frames THEN [rc |-> 0, calls |-> commit]
     ELSE LET res2 == IF res >= 0 THEN -EPIPE ELSE res
          IN IF res2 = -ESTRPIPE
             THEN LET r == cras_alsa_attempt_resume(env)
                  IN [rc |-> IF r.rc < 0 THEN r.rc ELSE 0,
                      calls |-> commit \o r.calls]
             ELSE [rc |-> IF env.recover_rc < 0 THEN env.recover_rc ELSE 0,
                   calls |-> Append(commit, LibCallErr("snd_pcm_recover", res2))]

\* The frames asked to commit and what snd_pcm_mmap_commit answers.
CommitFrames == {1, 2}
CommitResults == {0, 1, 2, -EPIPE, -ESTRPIPE, -EIO}

\* The driver changes how it will answer resume and recover.
PcmEnvResume(e) ==
  /\ pcm_env' = [pcm_env EXCEPT !.resume = e]
  /\ pcm_last' = [op |-> "env"]
  /\ UNCHANGED not_pcm_vars

\* One call of cras_alsa_attempt_resume.
AttemptResume ==
  /\ LET r == cras_alsa_attempt_resume(pcm_env.resume)
     IN pcm_last' = [op |-> "attempt_resume", rc |-> r.rc, calls |-> r.calls]
  /\ UNCHANGED pcm_env
  /\ UNCHANGED not_pcm_vars

\* One call of cras_alsa_mmap_commit.
MmapCommit(frames, res) ==
  /\ LET r == cras_alsa_mmap_commit(pcm_env.resume, frames, res)
     IN pcm_last' = [op |-> "mmap_commit", frames |-> frames, res |-> res,
                     rc |-> r.rc, calls |-> r.calls]
  /\ UNCHANGED pcm_env
  /\ UNCHANGED not_pcm_vars

\* static const size_t MAX_MMAP_BEGIN_ATTEMPTS.
MAX_MMAP_BEGIN_ATTEMPTS == 3

\* What snd_pcm_mmap_begin answers, attempt by attempt.
BeginAnswers == [1..MAX_MMAP_BEGIN_ATTEMPTS -> {0, -ESTRPIPE, -EPIPE}]

\* my_areas[0].addr as snd_pcm_mmap_begin sets it (0 is NULL), the frames it
\* grants, and the arguments of the call.
AreaAddrs == {0, 16}
GrantedFrames == {0, 1}
BeginOffsets == {0, 2}
FormatBytes == {0, 4}

\* The answers to resume the mmap begin actions work with.
BeginResumeEnvs == {e \in PcmResumeEnvs : e.eagain = 0 /\ e.prepare_rc = 0}

\* *dst with the offset taken in bytes.
mmap_dst_in_bytes(addr, offset, format_bytes) == addr + offset

\* *dst = (uint8_t*)my_areas[0].addr + (*offset) * format_bytes.
mmap_dst(addr, offset, format_bytes) == addr + offset * format_bytes

RECURSIVE mmap_begin_loop(_, _, _, _, _)
\* The while loop of cras_alsa_mmap_begin with `attempts` attempts made.
mmap_begin_loop(env, attempts, offset, format_bytes, calls) ==
  IF attempts >= MAX_MMAP_BEGIN_ATTEMPTS
  THEN [rc |-> -EIO, calls |-> calls, dst_set |-> FALSE, dst |-> 0]
  ELSE LET rc == env.begin_rcs[attempts + 1]
           calls1 == Append(calls, LibCall("snd_pcm_mmap_begin"))
       IN IF rc = -ESTRPIPE
          THEN LET r == cras_alsa_attempt_resume(env.resume)
               IN IF r.rc < 0
                  THEN [rc |-> r.rc, calls |-> calls1 \o r.calls,
                        dst_set |-> FALSE, dst |-> 0]
                  ELSE mmap_begin_loop(env, attempts + 1, offset, format_bytes,
                                       calls1 \o r.calls)
          ELSE IF rc < 0
          THEN LET calls2 == Append(calls1, LibCallErr("snd_pcm_recover", rc))
               IN IF env.resume.recover_rc = 0
                  THEN mmap_begin_loop(env, attempts + 1, offset, format_bytes, calls2)
                  ELSE [rc |-> rc, calls |-> calls2, dst_set |-> FALSE, dst |-> 0]
          ELSE IF env.area_addr = 0
          THEN [rc |-> -ENOMEM, calls |-> calls1, dst_set |-> FALSE, dst |-> 0]
          ELSE IF env.stream = "SND_PCM_STREAM_PLAYBACK" /\ env.granted = 0
          THEN [rc |-> -EIO, calls |-> calls1, dst_set |-> FALSE, dst |-> 0]
          ELSE [rc |-> 0, calls |-> calls1, dst_set |-> TRUE,
                dst |-> mmap_dst(env.area_addr, offset, format_bytes)]

\* cras_alsa_mmap_begin(handle, format_bytes, dst, offset, frames).
cras_alsa_mmap_begin(env, offset, format_bytes) ==
  mmap_begin_loop(env, 0, offset, format_bytes, <<>>)

\* The driver changes what snd_pcm_mmap_begin will answer.
PcmEnvBegin(rcs) ==
  /\ pcm_env' = [pcm_env EXCEPT !.begin_rcs = rcs]
  /\ pcm_last' = [op |-> "env"]
  /\ UNCHANGED not_pcm_vars

\* The PCM is another one: its direction, its area and the frames it grants.
PcmEnvArea(stream, addr, granted) ==
  /\ pcm_env' = [pcm_env EXCEPT !.stream = stream, !.area_addr = addr,
                                !.granted = granted]
  /\ pcm_last' = [op |-> "env"]
  /\ UNCHANGED not_pcm_vars

\* One call of cras_alsa_mmap_begin.
MmapBegin(offset, format_bytes) ==
  /\ LET r == cras_alsa_mmap_begin(pcm_env, offset, format_bytes)
     IN pcm_last' = [op |-> "mmap_begin", offset |-> offset,
                     format_bytes |-> format_bytes, rc |-> r.rc,
                     calls |-> r.calls, dst_set |-> r.dst_set, dst |-> r.dst]
  /\ UNCHANGED pcm_env
  /\ UNCHANGED not_pcm_vars

\* int retries = 3 of cras_alsa_pcm_open.
OPEN_RETRIES == 3

\* What snd_pcm_open answers, attempt by attempt, one more than asked for.
OpenAnswers == [1..(OPEN_RETRIES + 1) -> {0, -EBUSY, -EIO}]

\* cras_alsa_pcm_open that opens once.
pcm_open_once(rcs) == [rc |-> rcs[1], calls |-> <<LibCall("snd_pcm_open")>>]

RECURSIVE pcm_open_retry(_, _, _)
\* The retry_open loop with `attempt` the attempt to make and `retries`
\* the counter before it.
pcm_open_retry(rcs, attempt, retries) ==
  LET rc == rcs[attempt]
  IN IF rc = -EBUSY /\ retries - 1 # 0
     THEN LET r == pcm_open_retry(rcs, attempt + 1, retries - 1)
          IN [rc |-> r.rc,
              calls |-> <<LibCall("snd_pcm_open"), LibCall("usleep")>> \o r.calls]
     ELSE [rc |-> rc, calls |-> <<LibCall("snd_pcm_open")>>]

\* cras_alsa_pcm_open(handle, dev, stream).
cras_alsa_pcm_open(rcs) == pcm_open_retry(rcs, 1, OPEN_RETRIES)

\* The driver changes what snd_pcm_open will answer.
PcmEnvOpen(rcs) ==
  /\ pcm_env' = [pcm_env EXCEPT !.open_rcs = rcs]
  /\ pcm_last' = [op |-> "env"]
  /\ UNCHANGED not_pcm_vars

\* One call of cras_alsa_pcm_open.
PcmOpen(dev, stream) ==
  /\ LET r == cras_alsa_pcm_open(pcm_env.open_rcs)
     IN pcm_last' = [op |-> "pcm_open", dev |-> dev, stream |-> stream,
                     rc |-> r.rc, calls |-> r.calls]
  /\ UNCHANGED pcm_env
  /\ UNCHANGED not_pcm_vars

PcmOpenNext ==
  \/ \E rcs \in OpenAnswers : PcmEnvOpen(rcs)
  \/ \E dev \in AlsaDevs, stream \in PcmStreams : PcmOpen(dev, stream)

\* The largest buffer size, in frames, a device of the model supports.
MaxBufferFrames == 5

\* The buffer sizes of the configuration space of a device.
HwBufferSizes == SUBSET (1..MaxBufferFrames) \ {{}}

\* The library call of cras_alsa_set_hwparams that fails, if any;
\* "rate_differs" is snd_pcm_hw_params_set_rate_near settling for another
\* rate.
HwFailures ==
  {"none", "snd_pcm_hw_params_any", "snd_pcm_hw_params_set_rate_resample",
   "snd_pcm_hw_params_set_access", "snd_pcm_hw_params_set_period_wakeup",
   "snd_pcm_hw_params_set_period_time_near", "snd_pcm_hw_params_set_format",
   "snd_pcm_hw_params_set_rate_near", "rate_differs",
   "snd_pcm_hw_params_set_channels", "snd_pcm_hw_params_get_buffer_size_max",
   "snd_pcm_hw_params"}

\* The failures before the buffer size is looked at that end the call.
HwEarlyFailures ==
  {"snd_pcm_hw_params_any", "snd_pcm_hw_params_set_rate_resample",
   "snd_pcm_hw_params_set_access", "snd_pcm_hw_params_set_format",
   "snd_pcm_hw_params_set_rate_near", "rate_differs",
   "snd_pcm_hw_params_set_channels"}

\* The greatest member of a non-empty set of numbers.
set_max(S) == CHOOSE x \in S : \A y \in S : y <= x

\* *buffer_frames &= ~0x01.
clear_bit0(n) == n - (n % 2)

\* cras_alsa_set_hwparams(handle, format, buffer_frames, period_wakeup,
\* dma_period_time).  sizes: the buffer sizes of the configuration space;
\* fail: the library call that fails; frames_in: *buffer_frames before the
\* call.  snd_pcm_hw_params_set_buffer_size_max narrows the space to the
\* sizes up to the value given and writes the greatest of them back.
cras_alsa_set_hwparams(sizes, fail, frames_in, dma_period_time) ==
  IF fail \in HwEarlyFailures
  THEN [rc |-> -EINVAL, buffer_frames |-> frames_in, hint |-> frames_in]
  ELSE IF dma_period_time # 0 /\ fail = "snd_pcm_hw_params_set_period_time_near"
  THEN [rc |-> -EINVAL, buffer_frames |-> frames_in, hint |-> frames_in]
  ELSE LET max == IF fail = "snd_pcm_hw_params_get_buffer_size_max"
                  THEN frames_in ELSE set_max(sizes)
           hint == clear_bit0(max)
           narrowed == {x \in sizes : x <= hint}
       IN IF narrowed = {}
          THEN [rc |-> -EINVAL, buffer_frames |-> hint, hint |-> hint]
          ELSE [rc |-> IF fail = "snd_pcm_hw_params" THEN -EINVAL ELSE 0,
                buffer_frames |-> set_max(narrowed), hint |-> hint]

\* The PCM is another one, or the library fails elsewhere.
PcmEnvHw(sizes, fail) ==
  /\ pcm_env' = [pcm_env EXCEPT !.hw_sizes = sizes, !.hw_fail = fail]
  /\ \/ sizes = pcm_env.hw_sizes
     \/ fail = pcm_env.hw_fail
  /\ pcm_last' = [op |-> "env"]
  /\ UNCHANGED not_pcm_vars

\* One call of cras_alsa_set_hwparams.
SetHwparams(frames_in, dma_period_time) ==
  /\ LET r == cras_alsa_set_hwparams(pcm_env.hw_sizes, pcm_env.hw_fail,
                                     frames_in, dma_period_time)
     IN pcm_last' = [op |-> "set_hwparams", frames_in |-> frames_in,
                     dma_period_time |-> dma_period_time, rc |-> r.rc,
                     buffer_frames |-> r.buffer_frames, hint |-> r.hint]
  /\ UNCHANGED pcm_env
  /\ UNCHANGED not_pcm_vars

PcmHwNext ==
  \/ \E sizes \in HwBufferSizes, fail \in HwFailures : PcmEnvHw(sizes, fail)
  \/ \E frames_in \in 0..MaxBufferFrames, dma_period_time \in {0, 1} :
       SetHwparams(frames_in, dma_period_time)

PcmInit ==
  /\ pcm_env = [hw_sizes |-> {2}, hw_fail |-> "none",
                open_rcs |-> [i \in 1..(OPEN_RETRIES + 1) |-> 0],
                resume |-> [eagain |-> 0, resume_rc |-> 0, prepare_rc |-> 0,
                            start_rc |-> 0, recover_rc |-> 0],
                begin_rcs |-> [i \in 1..MAX_MMAP_BEGIN_ATTEMPTS |-> 0],
                stream |-> "SND_PCM_STREAM_PLAYBACK", area_addr |-> 16,
                granted |-> 1]
  /\ pcm_last = [op |-> "none"]

PcmBeginNext ==
  \/ \E e \in BeginResumeEnvs : PcmEnvResume(e)
  \/ \E rcs \in BeginAnswers : PcmEnvBegin(rcs)
  \/ \E stream \in PcmStreams, addr \in AreaAddrs, granted \in GrantedFrames :
       PcmEnvArea(stream, addr, granted)
  \/ \E offset \in BeginOffsets, format_bytes \in FormatBytes :
       MmapBegin(offset, format_bytes)

PcmResumeNext ==
  \/ \E e \in PcmResumeEnvs : PcmEnvResume(e)
  \/ AttemptResume
  \/ \E frames \in CommitFrames, res \in CommitResults : MmapCommit(frames, res)

(***************************************************************************)
(* ALSA PCM: properties                                                    *)
(***************************************************************************)

\* The names of the library calls of the last call, in order.
PcmCallNames == [i \in 1..Len(pcm_last.calls) |-> pcm_last.calls[i].f]

\* C22: cras_alsa_attempt_resume calls snd_pcm_resume first, again while it
\* answers -EAGAIN.  When the final answer is an error it then calls
\* snd_pcm_prepare and snd_pcm_start, in that order, and returns what
\* snd_pcm_start returned; otherwise it calls neither and returns what
\* snd_pcm_resume returned.
C22_ResumeThenPrepareStart ==
  pcm_last.op = "attempt_resume" =>
    /\ PcmCallNames[1] = "snd_pcm_resume"
    /\ \A i \in 1..(pcm_env.resume.eagain + 1) : PcmCallNames[i] = "snd_pcm_resume"
    /\ IF pcm_env.resume.resume_rc < 0
       THEN /\ SubSeq(PcmCallNames, pcm_env.resume.eagain + 2, Len(PcmCallNames))
                 = <<"snd_pcm_prepare", "snd_pcm_start">>
            /\ pcm_last.rc = pcm_env.resume.start_rc
       ELSE /\ Len(PcmCallNames) = pcm_env.resume.eagain + 1
            /\ pcm_last.rc = pcm_env.resume.resume_rc

\* Resume fails after one -EAGAIN, prepare fails and start succeeds.
C22_Witness ==
  /\ pcm_last.op = "attempt_resume"
  /\ pcm_env.resume.eagain = 1
  /\ pcm_env.resume.resume_rc < 0
  /\ pcm_env.resume.prepare_rc < 0
  /\ pcm_last.rc = 0
  /\ Len(pcm_last.calls) = 4

\* C23: a commit that returns the frames asked for returns 0 with no other
\* call.  Any other answer is an error, a shorter count -EPIPE: -ESTRPIPE
\* is given to the resume path, every other error to snd_pcm_recover with
\* that error; the call returns the negative code of the resume or recover
\* that failed and 0 otherwise.
C23_CommitErrorsRecovered ==
  pcm_last.op = "mmap_commit" =>
    LET err == IF pcm_last.res >= 0 THEN -EPIPE ELSE pcm_last.res
    IN IF pcm_last.res = pcm_last.frames
       THEN pcm_last.rc = 0 /\ PcmCallNames = <<"snd_pcm_mmap_commit">>
       ELSE IF err = -ESTRPIPE
       THEN /\ pcm_last.calls = <<LibCall("snd_pcm_mmap_commit")>>
                                  \o cras_alsa_attempt_resume(pcm_env.resume).calls
            /\ LET r == IF pcm_env.resume.resume_rc < 0
                        THEN pcm_env.resume.start_rc
                        ELSE pcm_env.resume.resume_rc
               IN pcm_last.rc = IF r < 0 THEN r ELSE 0
       ELSE /\ pcm_last.calls = <<LibCall("snd_pcm_mmap_commit"),
                                  LibCallErr("snd_pcm_recover", err)>>
            /\ pcm_last.rc = IF pcm_env.resume.recover_rc < 0
                             THEN pcm_env.resume.recover_rc ELSE 0

\* A short commit is recovered as -EPIPE and the call returns 0.
C23_Witness ==
  /\ pcm_last.op = "mmap_commit"
  /\ pcm_last.frames = 2 /\ pcm_last.res = 1
  /\ pcm_last.calls[2] = LibCallErr("snd_pcm_recover", -EPIPE)
  /\ pcm_last.rc = 0

\* The positions of the snd_pcm_mmap_begin calls among the calls of the last
\* call.
BeginCalls == {i \in 1..Len(pcm_last.calls) : PcmCallNames[i] = "snd_pcm_mmap_begin"}

\* Attempt i fails and what follows it recovers the PCM.
BeginRecovered(i) ==
  LET rc == pcm_env.begin_rcs[i]
  IN /\ rc < 0
     /\ IF rc = -ESTRPIPE THEN cras_alsa_attempt_resume(pcm_env.resume).rc >= 0
        ELSE pcm_env.resume.recover_rc = 0

\* The first attempt that is not a recovered failure;
\* MAX_MMAP_BEGIN_ATTEMPTS + 1 when there is none.
BeginStop ==
  LET S == {i \in 1..MAX_MMAP_BEGIN_ATTEMPTS : ~BeginRecovered(i)}
  IN IF S = {} THEN MAX_MMAP_BEGIN_ATTEMPTS + 1
     ELSE CHOOSE i \in S : \A j \in S : i <= j

\* C30: cras_alsa_mmap_begin calls snd_pcm_mmap_begin at most
\* MAX_MMAP_BEGIN_ATTEMPTS times, and again only right after a resume that
\* succeeded (the attempt answered -ESTRPIPE) or a snd_pcm_recover that
\* returned 0.  It returns -EIO when every attempt failed and was
\* recovered, the error code when a recovery fails (that of the resume, or
\* that of the attempt when snd_pcm_recover fails), -EIO when a playback
\* PCM grants 0 frames, and otherwise, the area being there, 0 with
\* *dst = area base + offset * format_bytes.
C30_MmapBeginBounded ==
  pcm_last.op = "mmap_begin" =>
    /\ Cardinality(BeginCalls) <= MAX_MMAP_BEGIN_ATTEMPTS
    /\ Cardinality(BeginCalls) =
         (IF BeginStop > MAX_MMAP_BEGIN_ATTEMPTS THEN MAX_MMAP_BEGIN_ATTEMPTS
          ELSE BeginStop)
    /\ PcmCallNames[1] = "snd_pcm_mmap_begin"
    /\ \A i \in BeginCalls \ {1} :
         \/ /\ pcm_last.calls[i - 1].f = "snd_pcm_recover"
            /\ pcm_env.resume.recover_rc = 0
         \/ /\ pcm_last.calls[i - 1].f \in {"snd_pcm_resume", "snd_pcm_start"}
            /\ cras_alsa_attempt_resume(pcm_env.resume).rc >= 0
    /\ IF BeginStop > MAX_MMAP_BEGIN_ATTEMPTS THEN pcm_last.rc = -EIO
       ELSE LET rc == pcm_env.begin_rcs[BeginStop]
            IN IF rc = -ESTRPIPE
               THEN pcm_last.rc = cras_alsa_attempt_resume(pcm_env.resume).rc
               ELSE IF rc < 0 THEN pcm_last.rc = rc
               ELSE pcm_env.area_addr # 0 =>
                      IF /\ pcm_env.stream = "SND_PCM_STREAM_PLAYBACK"
                         /\ pcm_env.granted = 0
                      THEN pcm_last.rc = -EIO
                      ELSE /\ pcm_last.rc = 0
                           /\ pcm_last.dst_set
                           /\ pcm_last.dst = pcm_env.area_addr
                                + pcm_last.offset * pcm_last.format_bytes
    /\ pcm_last.rc # 0 => ~pcm_last.dst_set

\* Two attempts fail and are recovered, one by resume and one by
\* snd_pcm_recover, and the third gives the buffer.
C30_Witness ==
  /\ pcm_last.op = "mmap_begin"
  /\ pcm_env.begin_rcs = <<-ESTRPIPE, -EPIPE, 0>>
  /\ Cardinality(BeginCalls) = 3
  /\ pcm_last.rc = 0
  /\ pcm_last.offset = 2 /\ pcm_last.format_bytes = 4
  /\ pcm_last.dst = 24

\* The positions of the snd_pcm_open calls among the calls of the last call.
OpenCalls == {i \in 1..Len(pcm_last.calls) : PcmCallNames[i] = "snd_pcm_open"}

\* C29: cras_alsa_pcm_open calls snd_pcm_open at most 3 times; attempt
\* n + 1 is made only when attempts 1..n answered -EBUSY; the value returned
\* is the answer of the last attempt made, so -EBUSY is returned only after
\* three busy attempts.
C29_OpenAtMostThrice ==
  pcm_last.op = "pcm_open" =>
    LET n == Cardinality(OpenCalls)
    IN /\ n >= 1 /\ n <= 3
       /\ \A k \in 1..(n - 1) : pcm_env.open_rcs[k] = -EBUSY
       /\ pcm_last.rc = pcm_env.open_rcs[n]
       /\ pcm_last.rc = -EBUSY => n = 3
       /\ (n < 3 => pcm_env.open_rcs[n] # -EBUSY)

\* The device is busy three times: the fourth answer is never asked for.
C29_Witness ==
  /\ pcm_last.op = "pcm_open"
  /\ pcm_env.open_rcs = <<-EBUSY, -EBUSY, -EBUSY, 0>>
  /\ pcm_last.rc = -EBUSY
  /\ Cardinality(OpenCalls) = 3

C24_NoStreamNoQueue ==
  /\ [](lb_last.op \in {"frames_queued", "delay_frames"} =>
          /\ ~lb_last.streams => lb_last.ret = 0
          /\ (~lb_last.streams /\ lb_last.after_configure /\ Delayed) =>
               /\ buf_queued(sbuf) \div FrameBytes = buffer_size
               /\ OnlySilence)
  /\ [][(~loopdev.streams /\ (FramesQueued \/ DelayFrames)) => sbuf' = sbuf]_vars

\* Time has passed since configure, the sender has not started, there is
\* room in the buffer and no stream: frames_queued adds no silence.
C24_Witness ==
  /\ lb_last.op = "frames_queued"
  /\ ~lb_last.streams /\ ~loopdev.streams
  /\ ~loopdev.started
  /\ ~Delayed
  /\ now > loopdev.dev_start_time
  /\ lb_last.ret = 0
  /\ buf_queued(sbuf) = 0

\* C25: flush_buffer returns 0 and changes nothing: the sample buffer and
\* read_frames, started and sender_idx of the device are as before the
\* call.
C25_FlushChangesNothing ==
  /\ [](lb_last.op = "flush_buffer" =>
          /\ lb_last.ret = 0
          /\ sbuf = lb_last.before)
  /\ [][FlushBuffer =>
          /\ sbuf' = sbuf
          /\ loopdev'.read_frames = loopdev.read_frames
          /\ loopdev'.started = loopdev.started
          /\ loopdev'.sender_idx = loopdev.sender_idx]_vars

\* The delayed variant is flushed with its buffer full of the initial
\* delay, and stays full.
C25_Witness ==
  /\ lb_last.op = "flush_buffer"
  /\ Delayed
  /\ lb_last.before.level = UsedSize
  /\ buf_queued(sbuf) \div FrameBytes = buffer_size

\* C27: cras_bt_transport_release on a transport that holds a file
\* descriptor closes it and leaves fd at -1 whatever the Release call does,
\* blocking or not; on a transport with fd < 0 it returns 0, closes nothing
\* and sends no message.
C27_ReleaseAlwaysCloses ==
  bt_last.op = "release" =>
    /\ transport.fd = -1
    /\ bt_last.before.fd >= 0 => bt_last.closed = {bt_last.before.fd}
    /\ bt_last.before.fd < 0 =>
         /\ bt_last.rc = 0
         /\ bt_last.sent = 0
         /\ bt_last.closed = {}
         /\ transport = bt_last.before

\* A release, not blocking, of a transport holding a descriptor whose
\* Release call got an error.
C27_Witness ==
  /\ bt_last.op = "release"
  /\ bt_last.before.fd >= 0
  /\ ~bt_last.blocking
  /\ bt_last.rc = -EIO
  /\ transport.fd = -1

(***************************************************************************)
(* BlueZ media transport: the transport list and the volume                *)
(***************************************************************************)

\* The transports created in a run and the end of the clock.
MaxTransports == 3
MaxBtTime == 1500

\* static struct timespec delay = {0, 500000000}, in milliseconds.
VOLUME_DELAY_MS == 500

BtPaths == {"/transport/a", "/transport/b"}
\* The endpoints: 1 has a transport_state_changed callback, 2 has none.
BtEndpoints == {1, 2}
BtDevices == {1}

\* The values of the Volume property (uint16_t) and the steps of the clock.
BtVolumes == {0, 1, 126, 127}
BtTimeSteps == {250, 500}

\* How cras_bt_transport_set_volume ends: no message could be made,
\* dbus_connection_send_with_reply fails, it gives no pending call,
\* dbus_pending_call_set_notify fails, the call is pending.
SetVolumeOutcomes == {"no_message", "send_failed", "no_pending",
                      "notify_failed", "ok"}

\* One call made to another object.
BtCall(f, arg) == [f |-> f, arg |-> arg]

\* The place of the transport id in the list.
transport_index(list, id) == CHOOSE i \in 1..Len(list) : list[i].id = id

TransportIds(list) == {list[i].id : i \in 1..Len(list)}

\* cras_bt_transport_create: the list afterwards (DL_APPEND).  pending says
\* whether a Set of the Volume property waits for its reply.
cras_bt_transport_create(list, id, object_path) ==
  Append(list, [id |-> id, object_path |-> object_path, endpoint |-> NULL,
                removed |-> 0, volume |-> -1, device |-> NULL,
                state |-> "CRAS_BT_TRANSPORT_STATE_IDLE",
                last_host_set_volume_ts |-> 0, pending |-> FALSE])

\* cras_bt_transport_set_endpoint.
cras_bt_transport_set_endpoint(list, id, endpoint) ==
  [list EXCEPT ![transport_index(list, id)].endpoint = endpoint]

\* cras_bt_transport_is_removed.
cras_bt_transport_is_removed(list, id) ==
  list[transport_index(list, id)].removed

\* cras_bt_transport_get: the first transport of the list with the object
\* path, NULL when there is none.
cras_bt_transport_get(list, object_path) ==
  LET S == {i \in 1..Len(list) : list[i].object_path = object_path}
  IN IF S = {} THEN NULL
     ELSE list[CHOOSE i \in S : \A j \in S : i <= j].id

\* cras_bt_device_set_use_hardware_volume on the device of a transport.
set_use_hardware_volume(dev, device, use) ==
  IF device = NULL THEN dev ELSE [dev EXCEPT !.use_hardware_volume = use]

\* cras_bt_transport_destroy: the list and the device afterwards, and the
\* calls made.
cras_bt_transport_destroy(list, dev, id) ==
  LET k == transport_index(list, id)
  IN [list |-> SubSeq(list, 1, k - 1) \o SubSeq(list, k + 1, Len(list)),
      dev |-> set_use_hardware_volume(dev, list[k].device, 0),
      calls |-> <<BtCall("cras_bt_transport_destroy", id),
                  BtCall("cras_bt_device_set_use_hardware_volume", 0)>>]

\* A remove that destroys the transport whether it has an endpoint or not.
remove_always_destroys(list, dev, id) == cras_bt_transport_destroy(list, dev, id)

\* cras_bt_transport_remove.
cras_bt_transport_remove(list, dev, id) ==
  LET k == transport_index(list, id)
  IN IF list[k].endpoint # NULL
     THEN [list |-> [list EXCEPT ![k].removed = 1], dev |-> dev,
           calls |-> <<>>]
     ELSE cras_bt_transport_destroy(list, dev, id)

\* cras_bt_transport_reset: destroys the head of the list until it is empty.
RECURSIVE cras_bt_transport_reset(_, _, _)
cras_bt_transport_reset(list, dev, calls) ==
  IF list = <<>> THEN [list |-> list, dev |-> dev, calls |-> calls]
  ELSE LET r == cras_bt_transport_destroy(list, dev, list[1].id)
       IN cras_bt_transport_reset(r.list, r.dev, calls \o r.calls)

\* subtract_timespecs and timespec_after on times in milliseconds.
subtract_timespecs(end, beg) == end - beg

timespec_after(a, b) == a > b

\* The volume 0..127 of AVRCP on the scale 0..100 of the device.
avrcp_to_hardware_volume(volume) == (volume * 100) \div 127

\* An update of the device that lets the volume through as soon as the delay
\* is reached.
update_device_at_delay(t, dev, t_now) ==
  IF t.device = NULL THEN [dev |-> dev, calls |-> <<>>]
  ELSE IF subtract_timespecs(t_now, VOLUME_DELAY_MS) < t.last_host_set_volume_ts
  THEN [dev |-> dev, calls |-> <<>>]
  ELSE IF t.volume # -1
  THEN [dev |-> [use_hardware_volume |-> 1,
                 hardware_volume |-> avrcp_to_hardware_volume(t.volume)],
        calls |-> <<BtCall("cras_bt_device_set_use_hardware_volume", 1),
                    BtCall("cras_bt_device_update_hardware_volume",
                           avrcp_to_hardware_volume(t.volume))>>]
  ELSE [dev |-> dev, calls |-> <<>>]

\* cras_bt_transport_update_device for the transport t at the time t_now: the
\* device afterwards and the calls made to it.
cras_bt_transport_update_device(t, dev, t_now) ==
  IF t.device = NULL THEN [dev |-> dev, calls |-> <<>>]
  ELSE IF ~timespec_after(subtract_timespecs(t_now, VOLUME_DELAY_MS),
                          t.last_host_set_volume_ts)
  THEN [dev |-> dev, calls |-> <<>>]
  ELSE IF t.volume # -1
  THEN [dev |-> [use_hardware_volume |-> 1,
                 hardware_volume |-> avrcp_to_hardware_volume(t.volume)],
        calls |-> <<BtCall("cras_bt_device_set_use_hardware_volume", 1),
                    BtCall("cras_bt_device_update_hardware_volume",
                           avrcp_to_hardware_volume(t.volume))>>]
  ELSE [dev |-> dev, calls |-> <<>>]

\* The value cras_bt_transport_set_volume returns.
set_volume_rc(outcome) ==
  IF outcome \in {"no_message", "send_failed", "notify_failed"} THEN -ENOMEM
  ELSE IF outcome = "no_pending" THEN -EIO
  ELSE 0

\* on_transport_volume_set: the transport afterwards.
on_transport_volume_set(t, error, t_now) ==
  IF error THEN [t EXCEPT !.pending = FALSE]
  ELSE [t EXCEPT !.pending = FALSE, !.last_host_set_volume_ts = t_now]

\* The values of the State property and the State properties of one
\* PropertiesChanged message.
MaxStateProps == 2
BtStateStrings == {"idle", "pending", "active", "broken"}
BtStateProps ==
  UNION {[1..n -> BtStateStrings] : n \in 0..MaxStateProps}

\* cras_bt_transport_state_from_string.
cras_bt_transport_state_from_string(value) ==
  IF value = "idle" THEN "CRAS_BT_TRANSPORT_STATE_IDLE"
  ELSE IF value = "pending" THEN "CRAS_BT_TRANSPORT_STATE_PENDING"
  ELSE IF value = "active" THEN "CRAS_BT_TRANSPORT_STATE_ACTIVE"
  ELSE "CRAS_BT_TRANSPORT_STATE_IDLE"

\* cras_bt_transport_state_changed: the calls it makes, the state of the
\* transport being the argument seen by the callback.
cras_bt_transport_state_changed(t) ==
  IF t.endpoint # NULL /\ t.endpoint = 1
  THEN <<BtCall("transport_state_changed", t.state)>>
  ELSE <<>>

\* The State branch that tells the endpoint of every State property.
update_state_always_notifies(t, value) ==
  LET nt == [t EXCEPT !.state = cras_bt_transport_state_from_string(value)]
  IN [t |-> nt, calls |-> cras_bt_transport_state_changed(nt)]

\* cras_bt_transport_update_properties, the branch of one State property:
\* the transport afterwards and the calls made.
update_state(t, value) ==
  LET nt == [t EXCEPT !.state = cras_bt_transport_state_from_string(value)]
  IN [t |-> nt,
      calls |-> IF nt.state # t.state THEN cras_bt_transport_state_changed(nt)
                ELSE <<>>]

\* cras_bt_transport_update_properties over the State properties of a
\* message, in order.
RECURSIVE update_properties_states(_, _, _)
update_properties_states(t, props, calls) ==
  IF props = <<>> THEN [t |-> t, calls |-> calls]
  ELSE LET r == update_state(t, Head(props))
       IN update_properties_states(r.t, Tail(props), calls \o r.calls)

\* cras_bt_transport_update_properties with State properties.
BtlUpdateState(id, props) ==
  /\ id \in TransportIds(transports)
  /\ LET k == transport_index(transports, id)
         r == update_properties_states(transports[k], props, <<>>)
     IN /\ transports' = [transports EXCEPT ![k] = r.t]
        /\ btl_last' = [op |-> "update_state", id |-> id, props |-> props,
                        state_before |-> transports[k].state,
                        endpoint |-> transports[k].endpoint,
                        calls |-> r.calls]
  /\ UNCHANGED <<next_transport, bt_now, bt_device, host_set_acked>>
  /\ UNCHANGED not_btl_vars

\* cras_bt_transport_update_properties with State among the invalidated
\* properties.
BtlInvalidateState(id) ==
  /\ id \in TransportIds(transports)
  /\ transports' = [transports EXCEPT
                      ![transport_index(transports, id)].state =
                        "CRAS_BT_TRANSPORT_STATE_IDLE"]
  /\ btl_last' = [op |-> "invalidate_state", id |-> id]
  /\ UNCHANGED <<next_transport, bt_now, bt_device, host_set_acked>>
  /\ UNCHANGED not_btl_vars

\* The clock moves on.
BtlClock(d) ==
  /\ bt_now + d <= MaxBtTime
  /\ bt_now' = bt_now + d
  /\ UNCHANGED <<transports, next_transport, bt_device, host_set_acked,
                 btl_last>>
  /\ UNCHANGED not_btl_vars

\* A transport appears on the bus: the callers create one only for an object
\* path cras_bt_transport_get does not find.
BtlCreate(object_path) ==
  /\ next_transport <= MaxTransports
  /\ cras_bt_transport_get(transports, object_path) = NULL
  /\ transports' = cras_bt_transport_create(transports, next_transport,
                                            object_path)
  /\ next_transport' = next_transport + 1
  /\ host_set_acked' = [host_set_acked EXCEPT ![next_transport] = -1]
  /\ btl_last' = [op |-> "create", id |-> next_transport]
  /\ UNCHANGED <<bt_now, bt_device>>
  /\ UNCHANGED not_btl_vars

BtlSetEndpoint(id, endpoint) ==
  /\ id \in TransportIds(transports)
  /\ transports' = cras_bt_transport_set_endpoint(transports, id, endpoint)
  /\ btl_last' = [op |-> "set_endpoint", id |-> id]
  /\ UNCHANGED <<next_transport, bt_now, bt_device, host_set_acked>>
  /\ UNCHANGED not_btl_vars

\* cras_bt_transport_get.
BtlGet(object_path) ==
  /\ btl_last' = [op |-> "get", object_path |-> object_path,
                  ret |-> cras_bt_transport_get(transports, object_path)]
  /\ UNCHANGED <<transports, next_transport, bt_now, bt_device,
                 host_set_acked>>
  /\ UNCHANGED not_btl_vars

\* One call of cras_bt_transport_remove.
BtlRemove(id) ==
  /\ id \in TransportIds(transports)
  /\ LET t == transports[transport_index(transports, id)]
         r == cras_bt_transport_remove(transports, bt_device, id)
     IN /\ transports' = r.list
        /\ bt_device' = r.dev
        /\ btl_last' = [op |-> "remove", id |-> id,
                        object_path |-> t.object_path,
                        endpoint |-> t.endpoint, calls |-> r.calls]
  /\ UNCHANGED <<next_transport, bt_now, host_set_acked>>
  /\ UNCHANGED not_btl_vars

\* One call of cras_bt_transport_destroy.  The reply to a Set still pending
\* on the transport is not followed.
BtlDestroy(id) ==
  /\ id \in TransportIds(transports)
  /\ LET t == transports[transport_index(transports, id)]
         r == cras_bt_transport_destroy(transports, bt_device, id)
     IN /\ transports' = r.list
        /\ bt_device' = r.dev
        /\ btl_last' = [op |-> "destroy", id |-> id,
                        object_path |-> t.object_path, calls |-> r.calls]
  /\ UNCHANGED <<next_transport, bt_now, host_set_acked>>
  /\ UNCHANGED not_btl_vars

BtlReset ==
  /\ LET r == cras_bt_transport_reset(transports, bt_device, <<>>)
     IN /\ transports' = r.list
        /\ bt_device' = r.dev
        /\ btl_last' = [op |-> "reset", calls |-> r.calls]
  /\ UNCHANGED <<next_transport, bt_now, host_set_acked>>
  /\ UNCHANGED not_btl_vars

\* cras_bt_transport_update_properties with the property Volume.
BtlUpdateVolume(id, volume) ==
  /\ id \in TransportIds(transports)
  /\ LET k == transport_index(transports, id)
         t == [transports[k] EXCEPT !.volume = volume]
         r == cras_bt_transport_update_device(t, bt_device, bt_now)
     IN /\ transports' = [transports EXCEPT ![k] = t]
        /\ bt_device' = r.dev
        /\ btl_last' = [op |-> "update_volume", id |-> id,
                        volume |-> volume, device |-> t.device,
                        dev_before |-> bt_device, calls |-> r.calls]
  /\ UNCHANGED <<next_transport, bt_now, host_set_acked>>
  /\ UNCHANGED not_btl_vars

\* cras_bt_transport_update_properties with the property Device: found says
\* whether cras_bt_device_get knows the device; a device it does not know is
\* created and updated.
BtlUpdateDevice(id, device, found) ==
  /\ id \in TransportIds(transports)
  /\ LET k == transport_index(transports, id)
         t == [transports[k] EXCEPT !.device = device]
         r == IF found THEN [dev |-> bt_device, calls |-> <<>>]
              ELSE cras_bt_transport_update_device(t, bt_device, bt_now)
     IN /\ transports' = [transports EXCEPT ![k] = t]
        /\ bt_device' = r.dev
        /\ btl_last' = [op |-> "update_device", id |-> id, calls |-> r.calls]
  /\ UNCHANGED <<next_transport, bt_now, host_set_acked>>
  /\ UNCHANGED not_btl_vars

\* cras_bt_transport_update_properties with Device among the invalidated
\* properties.
BtlInvalidateDevice(id) ==
  /\ id \in TransportIds(transports)
  /\ transports' = [transports EXCEPT
                      ![transport_index(transports, id)].device = NULL]
  /\ btl_last' = [op |-> "invalidate_device", id |-> id]
  /\ UNCHANGED <<next_transport, bt_now, bt_device, host_set_acked>>
  /\ UNCHANGED not_btl_vars

\* cras_bt_transport_set_volume: one Set is followed at a time.
BtlSetVolume(id, outcome) ==
  /\ id \in TransportIds(transports)
  /\ LET k == transport_index(transports, id)
     IN /\ ~transports[k].pending
        /\ transports' = [transports EXCEPT
                            ![k].pending = (set_volume_rc(outcome) = 0)]
  /\ btl_last' = [op |-> "set_volume", id |-> id,
                  rc |-> set_volume_rc(outcome)]
  /\ UNCHANGED <<next_transport, bt_now, bt_device, host_set_acked>>
  /\ UNCHANGED not_btl_vars

\* The reply to the Set arrives: on_transport_volume_set.
BtlVolumeSet(id, error) ==
  /\ id \in TransportIds(transports)
  /\ LET k == transport_index(transports, id)
     IN /\ transports[k].pending
        /\ transports' = [transports EXCEPT
                            ![k] = on_transport_volume_set(@, error, bt_now)]
  /\ host_set_acked' = IF error THEN host_set_acked
                       ELSE [host_set_acked EXCEPT ![id] = bt_now]
  /\ btl_last' = [op |-> "volume_set", id |-> id, error |-> error]
  /\ UNCHANGED <<next_transport, bt_now, bt_device>>
  /\ UNCHANGED not_btl_vars

BtlInit ==
  /\ transports = <<>>
  /\ next_transport = 1
  /\ bt_now = 0
  /\ bt_device = [use_hardware_volume |-> 0, hardware_volume |-> 0]
  /\ host_set_acked = [id \in 1..(MaxTransports + 1) |-> -1]
  /\ btl_last = [op |-> "none"]

\* The transport list: transports come and go.
BtlNext ==
  \/ \E object_path \in BtPaths : BtlCreate(object_path)
  \/ \E id \in 1..MaxTransports, endpoint \in BtEndpoints \cup {NULL} :
       BtlSetEndpoint(id, endpoint)
  \/ \E object_path \in BtPaths : BtlGet(object_path)
  \/ \E id \in 1..MaxTransports : BtlRemove(id)
  \/ \E id \in 1..MaxTransports : BtlDestroy(id)
  \/ BtlReset
  \/ \E id \in 1..MaxTransports, device \in BtDevices, found \in BOOLEAN :
       BtlUpdateDevice(id, device, found)
  \/ \E id \in 1..MaxTransports : BtlInvalidateDevice(id)

\* The first transport appears on the bus.
BtVolumeCreate(object_path) ==
  /\ transports = <<>>
  /\ BtlCreate(object_path)

\* The state of the transports on the bus.
BtStateNext ==
  \/ \E object_path \in BtPaths : BtlCreate(object_path)
  \/ \E id \in 1..MaxTransports, endpoint \in BtEndpoints \cup {NULL} :
       BtlSetEndpoint(id, endpoint)
  \/ \E id \in 1..MaxTransports, props \in BtStateProps :
       BtlUpdateState(id, props)
  \/ \E id \in 1..MaxTransports : BtlInvalidateState(id)

\* The volume of one transport that stays on the bus.
BtVolumeNext ==
  \/ \E d \in BtTimeSteps : BtlClock(d)
  \/ \E object_path \in BtPaths : BtVolumeCreate(object_path)
  \/ \E id \in 1..MaxTransports, volume \in BtVolumes :
       BtlUpdateVolume(id, volume)
  \/ \E id \in 1..MaxTransports, device \in BtDevices, found \in BOOLEAN :
       BtlUpdateDevice(id, device, found)
  \/ \E id \in 1..MaxTransports : BtlInvalidateDevice(id)
  \/ \E id \in 1..MaxTransports, outcome \in SetVolumeOutcomes :
       BtlSetVolume(id, outcome)
  \/ \E id \in 1..MaxTransports, error \in BOOLEAN : BtlVolumeSet(id, error)

(***************************************************************************)
(* BlueZ media transport list and volume: properties                       *)
(***************************************************************************)

\* The transports cras_bt_transport_destroy was called for in a call.
DestroyedIn(rec) ==
  IF rec.op \in {"remove", "destroy", "reset"}
  THEN {rec.calls[i].arg :
          i \in {j \in 1..Len(rec.calls) :
                   rec.calls[j].f = "cras_bt_transport_destroy"}}
  ELSE {}

\* The transport id is in the list, flagged removed, and found by its path.
FlaggedInList(list, id) ==
  /\ id \in TransportIds(list)
  /\ cras_bt_transport_is_removed(list, id) = 1
  /\ cras_bt_transport_get(list, list[transport_index(list, id)].object_path)
       = id

\* C26: cras_bt_transport_remove on a transport with an endpoint only flags
\* it: it is still in the list, cras_bt_transport_get on its object path
\* returns it and cras_bt_transport_is_removed is true, and this stays so
\* until cras_bt_transport_destroy is called for it.  On a transport without
\* endpoint it destroys the transport, which cras_bt_transport_get no longer
\* finds.
C26_RemoveFlagsOrDestroys ==
  /\ [](btl_last.op = "remove" =>
          IF btl_last.endpoint # NULL
          THEN /\ FlaggedInList(transports, btl_last.id)
               /\ btl_last.calls = <<>>
          ELSE /\ btl_last.id \notin TransportIds(transports)
               /\ btl_last.id \in DestroyedIn(btl_last)
               /\ cras_bt_transport_get(transports, btl_last.object_path)
                    = NULL)
  /\ [][\A id \in TransportIds(transports) :
          FlaggedInList(transports, id) =>
            \/ FlaggedInList(transports', id)
            \/ id \in DestroyedIn(btl_last')]_vars

\* A remove of the second transport of the list, which has an endpoint.
C26_Witness ==
  /\ btl_last.op = "remove"
  /\ btl_last.endpoint # NULL
  /\ Len(transports) = 2
  /\ transports[2].id = btl_last.id
  /\ transports[2].removed = 1
  /\ cras_bt_transport_get(transports, btl_last.object_path) = btl_last.id

\* C28: a Volume property update is passed on to the device only when more
\* than VOLUME_DELAY_MS have passed since a host volume set was last
\* acknowledged without error; within the delay it is skipped and the device
\* is left as it was.  When passed on, hardware volume use is set and the
\* device gets volume * 100 / 127, which is in 0..100 for every volume in
\* 0..127.
C28_VolumeAfterDelay ==
  /\ \A v \in 0..127 : avrcp_to_hardware_volume(v) \in 0..100
  /\ btl_last.op = "update_volume" =>
       LET acked == host_set_acked[btl_last.id]
           passed == btl_last.calls # <<>>
           value == (btl_last.volume * 100) \div 127
       IN /\ passed => (acked = -1 \/ bt_now - acked > VOLUME_DELAY_MS)
          /\ (acked # -1 /\ bt_now - acked <= VOLUME_DELAY_MS) =>
               (~passed /\ bt_device = btl_last.dev_before)
          /\ passed =>
               /\ btl_last.calls =
                    <<BtCall("cras_bt_device_set_use_hardware_volume", 1),
                      BtCall("cras_bt_device_update_hardware_volume", value)>>
               /\ bt_device = [use_hardware_volume |-> 1,
                               hardware_volume |-> value]

\* The volume 127 passed on 750 ms after the acknowledgement of a host set.
C28_Witness ==
  /\ btl_last.op = "update_volume"
  /\ btl_last.volume = 127
  /\ host_set_acked[btl_last.id] # -1
  /\ bt_now - host_set_acked[btl_last.id] = VOLUME_DELAY_MS + 250
  /\ btl_last.calls # <<>>
  /\ bt_device.hardware_volume = 100

\* The state a State string stands for.
ParsedState(value) ==
  CASE value = "pending" -> "CRAS_BT_TRANSPORT_STATE_PENDING"
    [] value = "active" -> "CRAS_BT_TRANSPORT_STATE_ACTIVE"
    [] OTHER -> "CRAS_BT_TRANSPORT_STATE_IDLE"

\* The State properties of props that differ from the state the transport
\* has when they are read, the transport starting in state.
RECURSIVE StateChanges(_, _)
StateChanges(state, props) ==
  IF props = <<>> THEN <<>>
  ELSE LET parsed == ParsedState(Head(props))
       IN (IF parsed # state THEN <<parsed>> ELSE <<>>)
            \o StateChanges(parsed, Tail(props))

\* C31: cras_bt_transport_update_properties calls the endpoint's
\* transport_state_changed once for each State property whose parsed value
\* differs from the state of the transport at that point, and never for an
\* equal one; a string other than "idle", "pending" or "active" counts as
\* idle; without endpoint or callback no call is made and the state is
\* updated all the same.
C31_StateChangedOncePerChange ==
  btl_last.op = "update_state" =>
    LET changes == StateChanges(btl_last.state_before, btl_last.props)
        t == transports[transport_index(transports, btl_last.id)]
        n == Len(btl_last.props)
    IN /\ btl_last.endpoint = 1 =>
            btl_last.calls =
              [i \in 1..Len(changes) |->
                 BtCall("transport_state_changed", changes[i])]
       /\ btl_last.endpoint # 1 => btl_last.calls = <<>>
       /\ n > 0 => t.state = ParsedState(btl_last.props[n])
       /\ n = 0 => t.state = btl_last.state_before

\* A message whose two State properties are equal reaches an endpoint with
\* a callback: one call.
C31_Witness ==
  /\ btl_last.op = "update_state"
  /\ btl_last.endpoint = 1
  /\ btl_last.state_before = "CRAS_BT_TRANSPORT_STATE_IDLE"
  /\ btl_last.props = <<"active", "active">>
  /\ Len(btl_last.calls) = 1

HookedOutputs == {o \in OutputDevs : loopbacks[o] > 0}

\* C33: between configure and close, whatever output devices were enabled
\* and disabled, the hook of the loopback device is registered on at most one
\* output device, and that device is the one sender_idx names.
C33_TapOnSenderOnly ==
  loopdev.open =>
    /\ Cardinality(HookedOutputs) <= 1
    /\ \A o \in HookedOutputs : o = loopdev.sender_idx

\* The device was configured with no output enabled; output 2 and then
\* output 1 were enabled, and the hook sits on output 2 alone.
C33_Witness ==
  /\ loopdev.open
  /\ lb_last.op = "device_enabled" /\ lb_last.cb
  /\ lb_last.dev = 1
  /\ enabled_outputs = <<2, 1>>
  /\ HookedOutputs = {2}
  /\ loopdev.sender_idx = 2

\* The frames of silence due at the clock value now: the frames since
\* dev_start_time that were neither read, as far as they fit before the end
\* of the buffer.
SilenceDue ==
  LET elapsed == IF now <= loopdev.dev_start_time THEN 0
                 ELSE ((now - loopdev.dev_start_time) * FrameRate) \div TicksPerSec
      due == IF elapsed > loopdev.read_frames
             THEN elapsed - loopdev.read_frames ELSE 0
  IN Min(buf_writable(sbuf) \div FrameBytes, due)

\* C34 as stated: whenever the sender has started, frames_queued returns the
\* frames queued in the sample buffer.
C34_Original ==
  (lb_last.op = "frames_queued" /\ loopdev.started) =>
    lb_last.ret = buf_queued(sbuf) \div FrameBytes

\* C34: while started is true frames_queued writes nothing into the sample
\* buffer and, with a stream attached, returns the frames queued in it (0
\* with no stream attached); started changes only in sample_hook_start and in
\* configure, which sets it to false; once the sender has reported stop, a
\* frames_queued with a stream attached queues the silence that is due.
C34_StartedStopsSilence ==
  /\ []((lb_last.op = "frames_queued" /\ loopdev.started) =>
          lb_last.ret = IF lb_last.streams
                        THEN buf_queued(sbuf) \div FrameBytes ELSE 0)
  /\ []((lb_last.op = "configure") => ~loopdev.started)
  /\ [][(FramesQueued /\ loopdev.started) => sbuf' = sbuf]_vars
  /\ [][(loopdev'.started # loopdev.started) =>
          \/ \E start \in BOOLEAN : SampleHookStart(start)
          \/ Configure]_vars
  /\ [][(FramesQueued /\ ~loopdev.started /\ loopdev.streams) =>
          /\ buf_queued(sbuf') = buf_queued(sbuf) + (SilenceDue * FrameBytes)
          /\ lb_last'.ret = buf_queued(sbuf') \div FrameBytes]_vars

\* frames_queued, with a stream attached and the sender started, returns
\* the frames sample_hook queued although time has passed since configure.
C34_Witness ==
  /\ lb_last.op = "frames_queued"
  /\ lb_last.streams
  /\ loopdev.started
  /\ now > loopdev.dev_start_time
  /\ lb_last.ret > 0
  /\ lb_last.ret = buf_queued(sbuf) \div FrameBytes
  /\ ~OnlySilence

\* C35: every A2DP device that was created is destroyed at most once, one
\* that is not destroyed is the device its Floss media object holds, and no
\* A2DP device of a freed Floss media object is left undestroyed.
C35_A2dpDestroyedOnce ==
  \A a \in 1..Len(a2dp_objs) :
    LET fm == a2dp_objs[a].fm
    IN /\ a2dp_objs[a].destroyed <= 1
       /\ a2dp_objs[a].destroyed = 0 =>
            /\ ~fl_medias[fm].freed
            /\ fl_medias[fm].a2dp = a

\* C36: an OnBluetoothAudioDeviceRemoved that carries an address is reported
\* as handled and leaves no A2DP device active.  The device the active Floss
\* media object held is destroyed, once, whatever the address; with none
\* held, or no active Floss media object, nothing is called or changed.
C36_RemovedIgnoresAddress ==
  (fl_last.op = "removed" /\ fl_last.args_ok) =>
    LET fm == fl_last.before.active_fm
        old == IF fm = NULL THEN NULL ELSE fl_last.before.fl_medias[fm].a2dp
    IN /\ fl_last.ret = "DBUS_HANDLER_RESULT_HANDLED"
       /\ active_fm = fm
       /\ active_fm # NULL => fl_medias[active_fm].a2dp = NULL
       /\ IF old # NULL
          THEN /\ fl_last.calls =
                    <<[f |-> "cras_floss_a2dp_destroy", a2dp |-> old]>>
               /\ a2dp_objs[old].destroyed =
                    fl_last.before.a2dp_objs[old].destroyed + 1
               /\ \A a \in (1..Len(a2dp_objs)) \ {old} :
                    a2dp_objs[a] = fl_last.before.a2dp_objs[a]
          ELSE /\ fl_last.calls = <<>>
               /\ a2dp_objs = fl_last.before.a2dp_objs
               /\ fl_medias = fl_last.before.fl_medias

\* The device added with address "aa" is removed by a message for "bb".
C36_Witness ==
  /\ fl_last.op = "removed" /\ fl_last.args_ok
  /\ fl_last.addr = "bb"
  /\ fl_last.before.active_fm # NULL
  /\ fl_last.before.fl_medias[fl_last.before.active_fm].a2dp = 1
  /\ a2dp_objs[1].addr = "aa"
  /\ a2dp_objs[1].destroyed = 1
  /\ fl_medias[active_fm].a2dp = NULL

Init == RclientInit /\ BlocklistInit /\ HfpInit /\ LoopInit /\ FifoInit
          /\ AlsaInit /\ BtInit /\ FlInit /\ ChmapInit /\ PcmInit /\ BtlInit

SpecRclient == Init /\ [][RclientNext]_vars

SpecBlocklist == Init /\ [][BlocklistNext]_vars

SpecHfp == Init /\ [][HfpNext]_vars

SpecLoopback == Init /\ [][LoopNext]_vars

SpecLoopIdle == Init /\ [][LoopIdleNext]_vars

SpecLoopTap == Init /\ [][LoopTapNext]_vars

SpecLoopFifo == Init /\ [][LoopFifoNext]_vars

SpecAlsa == Init /\ [][AlsaNext]_vars

SpecBt == Init /\ [][BtNext]_vars

SpecFloss == Init /\ [][FlNext]_vars

SpecChmap == Init /\ [][ChmapNext]_vars

SpecPcmResume == Init /\ [][PcmResumeNext]_vars

SpecMmapBegin == Init /\ [][PcmBeginNext]_vars

SpecPcmOpen == Init /\ [][PcmOpenNext]_vars

SpecHwparams == Init /\ [][PcmHwNext]_vars

SpecBtList == Init /\ [][BtlNext]_vars

SpecBtState == Init /\ [][BtStateNext]_vars

SpecBtVolume == Init /\ [][BtVolumeNext]_vars

====
